---- MODULE Spec2Model ----
(***************************************************************************)
(* A model of gce-metric's sample producer (pkg/generators) and of the    *)
(* request pipeline that consumes its samples (pkg/pipeline), as they are *)
(* wired together by cmd/gce-metric: a ticker feeds the PeriodicGenerator *)
(* goroutine, which writes Metric values to a buffered channel read by    *)
(* the Pipeline's Processor goroutine; both watch one shared context.     *)
(***************************************************************************)
EXTENDS Integers, Sequences, FiniteSets, TLC

\* ------------------------------------------------------------------ bounds
\* Number of ticks the time source delivers in a behaviour.
MaxTicks == 3
\* Largest capacity of the Metric channel explored (config.bufferSize).
MaxBufferSize == 2
\* Length of one waveform cycle, in ticks (config.period / sample interval).
PeriodTicks == 4
\* Resolution of a Timestamp: timestamps count this many units to the second.
UnitsPerSecond == 2
\* Resolution of a Value: values count this many units to 1.0.
ValueUnits == 2
\* Largest number of series in a request handed to a transformer.
MaxSeries == 2
\* Longest chain handed to BuildRequest on its own.
MaxChain == 3
\* Largest number of options handed to NewPipeline.
MaxOptions == 3
\* Largest number of calls of Close on one Pipeline.
MaxCloses == 2
\* The phases handed to a calculator go from -MaxCycles to MaxCycles.
MaxCycles == 2

\* -------------------------------------------------------- program constants
\* config.bufferSize as set by NewPeriodicGenerator.
DefaultBufferSize == 1
\* Capacity of the channel of a time.Ticker.
TickerCap == 1
\* Bounds of the default range calculator, NewPeriodicRangeCalculator(0, 100, Sawtooth).
DefaultFloor == 0
DefaultCeiling == 100
\* The phases handed to a calculator on its own are quarters of a cycle.
PhaseDen == 4

VARIABLES
    now,          \* timestamp of the latest tick issued by the time source
    ticker,       \* the ticker channel: timestamps waiting to be received
    bufferSize,   \* config.bufferSize: capacity of ch
    ch,           \* the Metric channel: samples enqueued and not yet received
    chClosed,     \* close(ch) has run
    closeCount,   \* number of times close(ch) has run
    cancelled,    \* the shared context is done
    genPc,        \* PeriodicGenerator: "idle", "select", "send", "done"
    firstTick,    \* the sync.Once of the generator has fired
    tZero,        \* timestamp of the first received tick
    metric,       \* the Metric built from the tick in hand
    transformers, \* Pipeline.transformers
    procPc,       \* Processor: "idle", "select", "build", "emit", "returned", "exited"
    value,        \* the Metric the Processor received last
    built,        \* what BuildRequest returned for value: the request and the error
    procResult,   \* the error returned by the Processor
    procExit,     \* the return statement the Processor left through
    readerPc,     \* a plain receiver of ch: "read", "closed"
    \* history of the run, read by the properties only
    processed,    \* timestamps of the ticks whose send was attempted, in order
    enqueued,     \* timestamps of the samples the send enqueued, in order
    received,     \* timestamps of the samples the Processor received, in order
    emitted,      \* one entry per Emitter call, in order
    raised,       \* the errors BuildRequest and the Emitter returned, in order
    readerGot,    \* timestamps the plain receiver received
    chAtClose,    \* what ch held when close(ch) ran
    recvMarks,    \* Len(processed) at each receive of the Processor, in order
    tickerClosed, \* the ticker channel has been closed
    \* a single call of a transformer or of BuildRequest, on its own
    uMode,        \* what is called: "idle", "transformer", "build"
    uReq,         \* the request handed to the transformer
    uMetric,      \* the Metric handed to the call
    uChain,       \* the chain BuildRequest runs
    uT,           \* the transformer that was called
    uFailAt,      \* the position of the transformer that failed in the chain, 0 for none
    uCalls,       \* the number of calls made
    uOut,         \* what the call returned
    uOptions,     \* the options handed to NewPipeline
    uEnv,         \* the environment NewPipeline runs in
    uPipe,        \* what NewPipeline returned
    uCalc,        \* the calculator called and its phase
    uParse,       \* the name handed to ParsePeriodicType and what it returned
    uClose,       \* what the calls of Close on the Pipeline returned, in order
    uShare,       \* the second request built, and which objects the requests point to
    main          \* generatorMain: where it is, and the calls of pipe.Close() it made

vars == <<now, ticker, bufferSize, ch, chClosed, closeCount, cancelled, genPc,
          firstTick, tZero, metric, transformers, procPc, value, built, procResult,
          procExit, readerPc, processed, enqueued, received, emitted,
          raised, readerGot, chAtClose, recvMarks, tickerClosed,
          uMode, uReq, uMetric, uChain, uT, uFailAt, uCalls, uOut,
          uOptions, uEnv, uPipe, uCalc, uParse, uClose, uShare, main>>

genVars == <<genPc, firstTick, tZero, metric>>
procVars == <<procPc, value, built, procResult, procExit>>
histVars == <<processed, enqueued, received, emitted, raised, readerGot, chAtClose, recvMarks>>
callVars == <<uOptions, uEnv, uPipe, uCalc, uParse, uClose, uShare>>
unitVars == <<uMode, uReq, uMetric, uChain, uT, uFailAt, uCalls, uOut, callVars, main>>

Min(a, b) == IF a <= b THEN a ELSE b
Abs(a) == IF a < 0 THEN -a ELSE a

\* ------------------------------------------------------------- generators
\* The zero Metric.
NoMetric == [Value |-> 0, Timestamp |-> 0]

\* Sawtooth.ValueCalculator: phase - floor(phase), for the phase num/den,
\* as the numerator of the fraction over den.
SawtoothUnit(num, den) == num % den

\* A sine wave that is not shifted by a quarter: 0.5 + sin(2 pi phase) / 2.
SineUnitUnshifted(num, den) ==
    LET q == ((PhaseDen * num) \div den) % PhaseDen
    IN CASE q = 0 -> den \div 2
         [] q = 1 -> den
         [] q = 2 -> den \div 2
         [] q = 3 -> 0

\* Sine.ValueCalculator: 0.5 + sin(2 pi (phase - 0.25)) / 2, at the phase
\* num/den where it is a whole number of quarters, as the numerator over den.
SineUnit(num, den) ==
    LET q == ((PhaseDen * num) \div den) % PhaseDen
    IN CASE q = 0 -> 0
         [] q = 1 -> den \div 2
         [] q = 2 -> den
         [] q = 3 -> den \div 2

\* A square wave from a sine that is exactly 0 at every multiple of one half.
SquareUnitExactSine(num, den) == IF (2 * num) % (2 * den) > den THEN den ELSE 0

\* A square wave that is 1 on the whole second half of each cycle, its start
\* included, and 0 on the first half.
SquareUnitByHalf(num, den) == IF (2 * num) % (2 * den) >= den THEN den ELSE 0

\* Square.ValueCalculator: 1 if math.Signbit(math.Sin(2 pi phase)), else 0,
\* as the numerator over den. Inside a half cycle the sine has the sign of
\* the half; at a multiple k of one half, 2 pi phase is k times math.Pi,
\* which is just below k times pi, and the float64 sine is a rounding
\* residue: positive for k = 1, 3, ... and k = -2, -4, ..., negative for
\* k = 2, 4, ... and k = -1, -3, ..., and +0 for k = 0.
SquareUnit(num, den) ==
    IF (2 * num) % den = 0
    THEN LET k == (2 * num) \div den
         IN IF (k > 0 /\ k % 2 = 0) \/ (k < 0 /\ k % 2 = 1) THEN den ELSE 0
    ELSE IF (2 * num) % (2 * den) > den THEN den ELSE 0

\* Triangle.ValueCalculator: |2 (phase - floor(0.5 + phase))|, as the
\* numerator over den.
TriangleUnit(num, den) == Abs(2 * num - 2 * den * ((den + 2 * num) \div (2 * den)))

\* PeriodicType.ValueCalculator() at the phase num/den, as the numerator over den.
ValueCalculator(kind, num, den) ==
    CASE kind = "sawtooth" -> SawtoothUnit(num, den)
      [] kind = "sine" -> SineUnit(num, den)
      [] kind = "square" -> SquareUnit(num, den)
      [] kind = "triangle" -> TriangleUnit(num, den)
      [] OTHER -> 0

\* A range calculator that starts from a, not from the smaller of a and b.
NewPeriodicRangeCalculatorFromA(a, b, kind, num, den) ==
    (Abs(a - b) * ValueCalculator(kind, num, den)) \div den + a

\* NewPeriodicRangeCalculator(a, b, kind) at the phase num/den.
NewPeriodicRangeCalculator(a, b, kind, num, den) ==
    (Abs(a - b) * ValueCalculator(kind, num, den)) \div den + Min(a, b)

\* NewPeriodicRangeCalculator(a, b, Sawtooth) at the phase num/den.
PeriodicRangeCalculator(a, b, num, den) ==
    NewPeriodicRangeCalculator(a, b, "sawtooth", num, den)

\* No calculator is called on its own.
\* A PeriodicType outside the five named ones, PeriodicType(5).
OtherPeriodicType == "PeriodicType(5)"

\* ErrInvalidPeriodicType
ErrInvalidPeriodicType == "invalid PeriodicType name"

\* The nil error of ParsePeriodicType.
NilParseError == [name |-> "", wraps |-> "nil"]

\* A ParsePeriodicType that ignores the case of the letters.
ParsePeriodicTypeFold(name) ==
    CASE name \in {"sawtooth", "Sawtooth"} -> [kind |-> "sawtooth", err |-> NilParseError]
      [] name \in {"sine", "SINE"} -> [kind |-> "sine", err |-> NilParseError]
      [] name \in {"square", "Square"} -> [kind |-> "square", err |-> NilParseError]
      [] name \in {"triangle", "TRIANGLE"} -> [kind |-> "triangle", err |-> NilParseError]
      [] OTHER -> [kind |-> "invalid", err |-> [name |-> name, wraps |-> ErrInvalidPeriodicType]]

\* ParsePeriodicType(name): the PeriodicType and the error.
ParsePeriodicType(name) ==
    CASE name = "sawtooth" -> [kind |-> "sawtooth", err |-> NilParseError]
      [] name = "sine" -> [kind |-> "sine", err |-> NilParseError]
      [] name = "square" -> [kind |-> "square", err |-> NilParseError]
      [] name = "triangle" -> [kind |-> "triangle", err |-> NilParseError]
      [] OTHER -> [kind |-> "invalid", err |-> [name |-> name, wraps |-> ErrInvalidPeriodicType]]

\* No name has been parsed.
NotParsed == [name |-> "", result |-> [kind |-> "invalid", err |-> NilParseError]]

NoCalculator == [kind |-> "invalid", a |-> 0, b |-> 0, num |-> 0, den |-> PhaseDen]

\* config.calculator applied to tick.Sub(tZero) / config.period; the value
\* is in units of 1/ValueUnits.
Calculator(elapsed) ==
    PeriodicRangeCalculator(DefaultFloor * ValueUnits, DefaultCeiling * ValueUnits,
                            elapsed, PeriodTicks)

\* The Metric the generator builds for a tick.
NewMetric(tick, t0) == [Value |-> Calculator(tick - t0), Timestamp |-> tick]


\* --------------------------------------------------------------- pipeline
\* The nil error.
NoError == [kind |-> "nil", at |-> 0, ts |-> 0]
\* The error a user-supplied transformer returns: position in the chain and sample.
TransformerError(i, m) == [kind |-> "transformer", at |-> i, ts |-> m.Timestamp]
\* The error the Emitter returns for the request of a sample.
EmitterError(m) == [kind |-> "emitter", at |-> 0, ts |-> m.Timestamp]

DefaultMetricType == "custom.googleapis.com/gce_metric"
DefaultLocation == "global"
DefaultNamespace == "github.com/memes/gce-metric"
\* Pipeline.projectID, as given to WithProjectID.
ProjectID == "project"

\* A nil *MonitoredResource.
NoResource == [Type |-> "nil", Labels |-> {}]

\* A nil *CreateTimeSeriesRequest.
NilRequest == [nil |-> TRUE]

\* ErrNilCreateTimeSeriesRequest
ErrNilCreateTimeSeriesRequest == [kind |-> "nil-request", at |-> 0, ts |-> 0]

\* The run-time panic of a nil pointer dereference.
NilDereference == [kind |-> "panic", at |-> 0, ts |-> 0]

\* time.Time.Unix(): the whole seconds of a timestamp.
Unix(ts) == ts \div UnitsPerSecond

\* int64(v): the integer part, the fraction dropped.
RoundTowardZero(v) == IF v >= 0 THEN v \div ValueUnits ELSE -((-v) \div ValueUnits)
\* int64(math.Round(v)): the nearest integer, halves away from zero.
Round(v) ==
    IF v >= 0
    THEN (2 * v + ValueUnits) \div (2 * ValueUnits)
    ELSE -((2 * (-v) + ValueUnits) \div (2 * ValueUnits))

\* The transformers a chain is made of.  A user transformer is a caller's
\* function; it leaves the request alone and may return an error.
GenericNode == [family |-> "resource", type |-> "generic_node"]
GCEInstance == [family |-> "resource", type |-> "gce_instance"]
GKEContainer == [family |-> "resource", type |-> "gke_container"]
K8sCluster == [family |-> "resource", type |-> "k8s_cluster"]
K8sContainer == [family |-> "resource", type |-> "k8s_container"]
K8sNode == [family |-> "resource", type |-> "k8s_node"]
K8sPod == [family |-> "resource", type |-> "k8s_pod"]
DoubleValue == [family |-> "value", type |-> "double"]
IntegerValue == [family |-> "value", type |-> "integer"]
User == [family |-> "user", type |-> "user"]
\* No transformer.
NoTransformer == [family |-> "none", type |-> "none"]

\* NewGenericMonitoredResourceTransformer(projectID, location, namespace, nodeID)
GenericMonitoredResource ==
    [Type |-> "generic_node",
     Labels |-> {<<"project_id", ProjectID>>, <<"location", DefaultLocation>>,
                 <<"namespace", DefaultNamespace>>, <<"node_id", "uuid">>}]

\* NewGCEMonitoredResourceTransformer(projectID, instanceID, zone)
GCEMonitoredResource ==
    [Type |-> "gce_instance",
     Labels |-> {<<"project_id", ProjectID>>, <<"instance_id", "instance">>,
                 <<"zone", "zone">>}]

\* NewGKEMonitoredResourceTransformer(projectID, clusterName, namespaceID,
\* instanceID, podID, containerName, zone)
GKEMonitoredResource ==
    [Type |-> "gke_container",
     Labels |-> {<<"project_id", ProjectID>>, <<"cluster_name", "cluster">>,
                 <<"namespace_id", "namespace">>, <<"instance_id", "instance">>,
                 <<"pod_id", "pod">>, <<"container_name", "container">>,
                 <<"zone", "zone">>}]

\* NewGenericKubernetesClusterMonitoredResourceTransformer(projectID, location, clusterName)
K8sClusterMonitoredResource ==
    [Type |-> "k8s_cluster",
     Labels |-> {<<"project_id", ProjectID>>, <<"location", DefaultLocation>>,
                 <<"cluster_name", "cluster">>}]

\* NewGenericKubernetesContainerMonitoredResourceTransformer(projectID, location,
\* clusterName, namespaceID, podID, containerName)
K8sContainerMonitoredResource ==
    [Type |-> "k8s_container",
     Labels |-> {<<"project_id", ProjectID>>, <<"location", DefaultLocation>>,
                 <<"cluster_name", "cluster">>, <<"namespace_name", "namespace">>,
                 <<"pod_name", "pod">>, <<"container_name", "container">>}]

\* NewGenericKubernetesNodeMonitoredResourceTransformer(projectID, location, clusterName, nodeName)
K8sNodeMonitoredResource ==
    [Type |-> "k8s_node",
     Labels |-> {<<"project_id", ProjectID>>, <<"location", DefaultLocation>>,
                 <<"cluster_name", "cluster">>, <<"node_name", "node">>}]

\* NewGenericKubernetesPodMonitoredResourceTransformer(projectID, location,
\* clusterName, namespaceID, podID)
K8sPodMonitoredResource ==
    [Type |-> "k8s_pod",
     Labels |-> {<<"project_id", ProjectID>>, <<"location", DefaultLocation>>,
                 <<"cluster_name", "cluster">>, <<"namespace_name", "namespace">>,
                 <<"pod_name", "pod">>}]

\* The MonitoredResource a resource transformer was built with.
MonitoredResource(t) ==
    IF "labels" \in DOMAIN t
    THEN [Type |-> t.type, Labels |-> t.labels]
    ELSE CASE t.type = "generic_node" -> GenericMonitoredResource
           [] t.type = "gce_instance" -> GCEMonitoredResource
           [] t.type = "gke_container" -> GKEMonitoredResource
           [] t.type = "k8s_cluster" -> K8sClusterMonitoredResource
           [] t.type = "k8s_container" -> K8sContainerMonitoredResource
           [] t.type = "k8s_node" -> K8sNodeMonitoredResource
           [] t.type = "k8s_pod" -> K8sPodMonitoredResource
\* The single Point of the value transformers: the interval carries the
\* whole seconds of the timestamp, and no nanoseconds.
DoublePoint(m) ==
    [StartTime |-> Unix(m.Timestamp), EndTime |-> Unix(m.Timestamp),
     Kind |-> "double", Value |-> m.Value]
IntegerPoint(m) ==
    [StartTime |-> Unix(m.Timestamp), EndTime |-> Unix(m.Timestamp),
     Kind |-> "int64", Value |-> Round(m.Value)]

\* A loop that sets the Resource of a series only when it has none.
SetResourceIfAbsent(r, res) ==
    [r EXCEPT !.TimeSeries =
        [i \in 1..Len(r.TimeSeries) |->
            IF r.TimeSeries[i].Resource = NoResource
            THEN [r.TimeSeries[i] EXCEPT !.Resource = res]
            ELSE r.TimeSeries[i]]]
\* A loop that sets the Resource of the first series only.
SetResourceFirstOnly(r, res) ==
    [r EXCEPT !.TimeSeries =
        [i \in 1..Len(r.TimeSeries) |->
            IF i = 1 THEN [r.TimeSeries[i] EXCEPT !.Resource = res] ELSE r.TimeSeries[i]]]
\* A loop that appends the points to those a series has.
SetPointsAppend(r, points) ==
    [r EXCEPT !.TimeSeries =
        [i \in 1..Len(r.TimeSeries) |->
            [r.TimeSeries[i] EXCEPT !.Points = r.TimeSeries[i].Points \o points]]]
\* A loop that adds a point to a series that has points, and sets the points
\* of one that has none.
SetPointsAccumulate(r, points) ==
    [r EXCEPT !.TimeSeries =
        [i \in 1..Len(r.TimeSeries) |->
            [r.TimeSeries[i] EXCEPT !.Points =
                IF r.TimeSeries[i].Points = <<>> THEN points
                ELSE <<r.TimeSeries[i].Points[1]>> \o points]]]
\* for _, series := range req.TimeSeries { series.Resource = ... }
SetResource(r, res) ==
    [r EXCEPT !.TimeSeries =
        [i \in 1..Len(r.TimeSeries) |-> [r.TimeSeries[i] EXCEPT !.Resource = res]]]

\* for _, series := range req.TimeSeries { series.Points = ... }
SetPoints(r, points) ==
    [r EXCEPT !.TimeSeries =
        [i \in 1..Len(r.TimeSeries) |-> [r.TimeSeries[i] EXCEPT !.Points = points]]]

\* A resource transformer without the nil check: ranging over the series of a
\* nil request is a nil pointer dereference.
ResourceTransformerNoCheck(res, r) ==
    IF r = NilRequest
    THEN [req |-> r, err |-> NilDereference]
    ELSE [req |-> SetResource(r, res), err |-> NoError]
\* A value transformer that makes a series for its point when the request has none.
ValueTransformerAddsSeries(point, r) ==
    IF r = NilRequest
    THEN [req |-> r, err |-> ErrNilCreateTimeSeriesRequest]
    ELSE IF r.TimeSeries = <<>>
    THEN [req |-> [r EXCEPT !.TimeSeries =
                      << [Metric |-> [Type |-> DefaultMetricType, Labels |-> {}],
                          MetricKind |-> "GAUGE",
                          Resource |-> NoResource,
                          Points |-> <<point>>] >>],
          err |-> NoError]
    ELSE [req |-> SetPoints(r, <<point>>), err |-> NoError]
\* A value transformer that sets the points of the series that have a
\* resource only.
ValueTransformerNeedsResource(point, r) ==
    IF r = NilRequest
    THEN [req |-> r, err |-> ErrNilCreateTimeSeriesRequest]
    ELSE [req |-> [r EXCEPT !.TimeSeries =
                      [i \in 1..Len(r.TimeSeries) |->
                          IF r.TimeSeries[i].Resource = NoResource
                          THEN r.TimeSeries[i]
                          ELSE [r.TimeSeries[i] EXCEPT !.Points = <<point>>]]],
          err |-> NoError]
\* The function a New...MonitoredResourceTransformer returns, built with
\* the resource res, called on the request r.
ResourceTransformer(res, r) ==
    IF r = NilRequest
    THEN [req |-> r, err |-> ErrNilCreateTimeSeriesRequest]
    ELSE [req |-> SetResource(r, res), err |-> NoError]

\* The function a New...TypedValueTransformer returns, called on the
\* request r with the point built from the metric.
ValueTransformer(point, r) ==
    IF r = NilRequest
    THEN [req |-> r, err |-> ErrNilCreateTimeSeriesRequest]
    ELSE [req |-> SetPoints(r, <<point>>), err |-> NoError]

\* One Transformer call: the request afterwards and the error returned.
\* fails says whether a user transformer returns its error.
Transformer(t, i, r, m, fails) ==
    CASE t.family = "resource" -> ResourceTransformer(MonitoredResource(t), r)
      [] t.type = "double" -> ValueTransformer(DoublePoint(m), r)
      [] t.type = "integer" -> ValueTransformer(IntegerPoint(m), r)
      [] OTHER ->
           [req |-> r, err |-> IF fails THEN TransformerError(i, m) ELSE NoError]

\* A request allocated with no series.
NewRequestEmpty == [Name |-> <<"projects/", ProjectID>>, TimeSeries |-> <<>>]
\* The request BuildRequest allocates.
NewRequest ==
    [Name |-> <<"projects/", ProjectID>>,
     TimeSeries |-> << [Metric |-> [Type |-> DefaultMetricType, Labels |-> {}],
                        MetricKind |-> "GAUGE",
                        Resource |-> NoResource,
                        Points |-> <<>>] >>]

\* The loop of BuildRequest from transformer i on; applied counts the
\* transformers that returned nil.
RECURSIVE RunTransformers(_, _, _, _, _)
RunTransformers(chain, i, r, m, failAt) ==
    IF i > Len(chain)
    THEN [req |-> r, err |-> NoError, applied |-> Len(chain)]
    ELSE LET res == Transformer(chain[i], i, r, m, failAt = i)
         IN IF res.err # NoError
            THEN [req |-> res.req, err |-> res.err, applied |-> i - 1]
            ELSE RunTransformers(chain, i + 1, res.req, m, failAt)

\* A BuildRequest that runs the whole chain and then returns the first error.
BuildRequestRunsAll(chain, m, failAt) ==
    [req |-> RunTransformers(chain, 1, NewRequest, m, 0).req,
     err |-> IF failAt = 0 THEN NoError ELSE TransformerError(failAt, m),
     applied |-> IF failAt = 0 THEN Len(chain) ELSE failAt - 1]
\* Pipeline.BuildRequest(metric); failAt is the position of the transformer
\* that returns an error on this call, 0 for none.
BuildRequest(chain, m, failAt) == RunTransformers(chain, 1, NewRequest, m, failAt)

\* The positions of a chain whose transformer can return an error on a non-nil request.
Fallible(chain) == {0} \cup {i \in 1..Len(chain) : chain[i].family = "user"}

\* What BuildRequest returned when it has not been called.
NotBuilt == [req |-> NewRequest, err |-> NoError, applied |-> 0]

\* The chains NewPipeline is given here: the defaults outside Google Cloud,
\* the defaults followed by a user transformer, and a user chain with the
\* defaults excluded.
Chains ==
    { <<GenericNode, DoubleValue>>,
      <<GenericNode, DoubleValue, User>>,
      <<User, GenericNode, IntegerValue>> }


\* ------------------------------------------------------------ NewPipeline
\* The resource transformers NewPipeline builds, with the identifiers they
\* are built from.
NewGenericMonitoredResourceTransformer(projectID, location, namespace, nodeID) ==
    [family |-> "resource", type |-> "generic_node",
     labels |-> {<<"project_id", projectID>>, <<"location", location>>,
                 <<"namespace", namespace>>, <<"node_id", nodeID>>}]
NewGCEMonitoredResourceTransformer(projectID, instanceID, zone) ==
    [family |-> "resource", type |-> "gce_instance",
     labels |-> {<<"project_id", projectID>>, <<"instance_id", instanceID>>,
                 <<"zone", zone>>}]
NewGKEMonitoredResourceTransformer(projectID, clusterName, namespaceID, instanceID, podID, containerName, zone) ==
    [family |-> "resource", type |-> "gke_container",
     labels |-> {<<"project_id", projectID>>, <<"cluster_name", clusterName>>,
                 <<"namespace_id", namespaceID>>, <<"instance_id", instanceID>>,
                 <<"pod_id", podID>>, <<"container_name", containerName>>,
                 <<"zone", zone>>}]

\* errNotGCP
errNotGCP == [kind |-> "not-gcp", at |-> 0, ts |-> 0]
\* The error of a call of the metadata client, wrapped.
MetadataError(call) == [kind |-> call, at |-> 0, ts |-> 0]
\* The error of monitoring.NewMetricClient, wrapped.
MetricClientError == [kind |-> "metric-client", at |-> 0, ts |-> 0]

\* What the metadata client and the environment variables answer.
MetadataProjectID == "metadata-project"
MetadataInstanceID == "metadata-instance"
MetadataZone == "metadata-zone"
MetadataClusterName == "metadata-cluster"
EnvNamespace == "env-namespace"
EnvHostname == "env-hostname"
EnvContainerName == "env-container"
\* uuid.New().String()
NewUUID == "uuid"

\* The environments of NewPipeline: onGCE() or not, KUBERNETES_SERVICE_HOST
\* set or not, the call of the metadata client that fails if any, and
\* whether monitoring.NewMetricClient fails.
Environments ==
    [onGCE : BOOLEAN,
     kubernetes : BOOLEAN,
     metadataFails : {"none", "ProjectID", "InstanceID", "Zone", "cluster_name"},
     clientFails : BOOLEAN]
NoEnvironment ==
    [onGCE |-> FALSE, kubernetes |-> FALSE, metadataFails |-> "none", clientFails |-> FALSE]

\* The options.
WithProjectID(projectID) == [opt |-> "WithProjectID", arg |-> projectID]
WithMetricType(metricType) == [opt |-> "WithMetricType", arg |-> metricType]
WithoutDefaultTransformers == [opt |-> "WithoutDefaultTransformers", arg |-> ""]
WithTransformers(ts) == [opt |-> "WithTransformers", arg |-> ts]
WithWriterEmitter == [opt |-> "WithWriterEmitter", arg |-> ""]

\* A nil map, a nil pointer, a nil slice: it points to no object.
NilRef == 0

\* The Pipeline NewPipeline starts from.
EmptyPipeline ==
    [projectID |-> "",
     metricType |-> DefaultMetricType,
     excludeDefaultTransformers |-> FALSE,
     transformers |-> <<>>,
     emitter |-> "nil",
     closer |-> "nil",
     client |-> "nil",
     metricLabels |-> NilRef]
\* A nil *Pipeline.
NilPipeline == [nil |-> TRUE]
\* NewPipeline has not been called.
NoPipeline == [pipeline |-> NilPipeline, err |-> NoError, asked |-> {}]

\* Options of which the first of a kind wins: a project identifier or a
\* metric type that is set already is kept.
ApplyOptionFirstWins(p, o) ==
    CASE o.opt = "WithProjectID" ->
            IF p.projectID = "" THEN [p EXCEPT !.projectID = o.arg] ELSE p
      [] o.opt = "WithMetricType" ->
            IF p.metricType = DefaultMetricType THEN [p EXCEPT !.metricType = o.arg] ELSE p
      [] o.opt = "WithoutDefaultTransformers" -> [p EXCEPT !.excludeDefaultTransformers = TRUE]
      [] o.opt = "WithTransformers" -> [p EXCEPT !.transformers = p.transformers \o o.arg]
      [] o.opt = "WithWriterEmitter" -> [p EXCEPT !.emitter = "writer", !.closer = "writer"]

\* Options of which WithoutDefaultTransformers drops the transformers given
\* before it.
ApplyOptionSuppressDrops(p, o) ==
    CASE o.opt = "WithProjectID" -> [p EXCEPT !.projectID = o.arg]
      [] o.opt = "WithMetricType" -> [p EXCEPT !.metricType = o.arg]
      [] o.opt = "WithoutDefaultTransformers" ->
            [p EXCEPT !.excludeDefaultTransformers = TRUE, !.transformers = <<>>]
      [] o.opt = "WithTransformers" -> [p EXCEPT !.transformers = p.transformers \o o.arg]
      [] o.opt = "WithWriterEmitter" -> [p EXCEPT !.emitter = "writer", !.closer = "writer"]

\* option(pipeline)
ApplyOption(p, o) ==
    CASE o.opt = "WithProjectID" -> [p EXCEPT !.projectID = o.arg]
      [] o.opt = "WithMetricType" -> [p EXCEPT !.metricType = o.arg]
      [] o.opt = "WithoutDefaultTransformers" -> [p EXCEPT !.excludeDefaultTransformers = TRUE]
      [] o.opt = "WithTransformers" -> [p EXCEPT !.transformers = p.transformers \o o.arg]
      [] o.opt = "WithWriterEmitter" -> [p EXCEPT !.emitter = "writer", !.closer = "writer"]

\* for _, option := range options { option(pipeline) }
RECURSIVE ApplyOptions(_, _)
ApplyOptions(p, options) ==
    IF options = <<>> THEN p
    ELSE ApplyOptions(ApplyOption(p, Head(options)), Tail(options))

\* A NewPipeline that asks the metadata client for the project identifier
\* whenever it runs on Google Cloud, whatever the options gave.
ResolveProjectIDFromMetadata(p, env) ==
    IF ~env.onGCE
    THEN IF p.projectID = ""
         THEN [projectID |-> "", err |-> errNotGCP, asked |-> {}]
         ELSE [projectID |-> p.projectID, err |-> NoError, asked |-> {}]
    ELSE IF env.metadataFails = "ProjectID"
    THEN [projectID |-> "", err |-> MetadataError("ProjectID"), asked |-> {"ProjectID"}]
    ELSE [projectID |-> MetadataProjectID, err |-> NoError, asked |-> {"ProjectID"}]

\* if pipeline.projectID == "" { ... }: the project identifier of the
\* pipeline, the error returned, the calls made to the metadata client.
ResolveProjectID(p, env) ==
    IF p.projectID # ""
    THEN [projectID |-> p.projectID, err |-> NoError, asked |-> {}]
    ELSE IF ~env.onGCE
    THEN [projectID |-> "", err |-> errNotGCP, asked |-> {}]
    ELSE IF env.metadataFails = "ProjectID"
    THEN [projectID |-> "", err |-> MetadataError("ProjectID"), asked |-> {"ProjectID"}]
    ELSE [projectID |-> MetadataProjectID, err |-> NoError, asked |-> {"ProjectID"}]

\* A value transformer of the defaults that rounds to an integer.
DefaultValueTransformerInteger == IntegerValue
\* transformers = append(transformers, NewDoubleTypedValueTransformer())
DefaultValueTransformer == DoubleValue

\* A defaultTransformers that does not look at KUBERNETES_SERVICE_HOST.
defaultTransformersNoKubernetes(p, env) ==
    IF env.onGCE
    THEN IF env.metadataFails = "InstanceID"
         THEN [transformers |-> <<>>, err |-> MetadataError("InstanceID"),
               asked |-> {"InstanceID"}]
         ELSE IF env.metadataFails = "Zone"
         THEN [transformers |-> <<>>, err |-> MetadataError("Zone"),
               asked |-> {"InstanceID", "Zone"}]
         ELSE [transformers |->
                  << NewGCEMonitoredResourceTransformer(p.projectID, MetadataInstanceID,
                                                        MetadataZone),
                     DefaultValueTransformer >>,
               err |-> NoError,
               asked |-> {"InstanceID", "Zone"}]
    ELSE [transformers |->
             << NewGenericMonitoredResourceTransformer(p.projectID, DefaultLocation,
                                                       DefaultNamespace, NewUUID),
                DefaultValueTransformer >>,
          err |-> NoError,
          asked |-> {}]

\* Pipeline.defaultTransformers: the transformers, the error returned, the
\* calls made to the metadata client.
defaultTransformers(p, env) ==
    IF env.onGCE
    THEN IF env.metadataFails = "InstanceID"
         THEN [transformers |-> <<>>, err |-> MetadataError("InstanceID"),
               asked |-> {"InstanceID"}]
         ELSE IF env.metadataFails = "Zone"
         THEN [transformers |-> <<>>, err |-> MetadataError("Zone"),
               asked |-> {"InstanceID", "Zone"}]
         ELSE IF env.kubernetes
         THEN IF env.metadataFails = "cluster_name"
              THEN [transformers |-> <<>>, err |-> MetadataError("cluster_name"),
                    asked |-> {"InstanceID", "Zone", "cluster_name"}]
              ELSE [transformers |->
                       << NewGKEMonitoredResourceTransformer(
                              p.projectID, MetadataClusterName, EnvNamespace,
                              MetadataInstanceID, EnvHostname, EnvContainerName, MetadataZone),
                          DefaultValueTransformer >>,
                    err |-> NoError,
                    asked |-> {"InstanceID", "Zone", "cluster_name"}]
         ELSE [transformers |->
                  << NewGCEMonitoredResourceTransformer(p.projectID, MetadataInstanceID,
                                                        MetadataZone),
                     DefaultValueTransformer >>,
               err |-> NoError,
               asked |-> {"InstanceID", "Zone"}]
    ELSE [transformers |->
             << NewGenericMonitoredResourceTransformer(p.projectID, DefaultLocation,
                                                       DefaultNamespace, NewUUID),
                DefaultValueTransformer >>,
          err |-> NoError,
          asked |-> {}]

\* A chain of the transformers of the options only.
ComposeChainGivenOnly(defaults, given) == given
\* A chain with the defaults after the transformers of the options.
ComposeChainDefaultsLast(defaults, given) == given \o defaults
\* pipeline.transformers = append(defaultTransformers, pipeline.transformers...)
ComposeChain(defaults, given) == defaults \o given

\* NewPipeline(ctx, options...) in the environment env: the Pipeline (nil
\* with an error), the error, the calls made to the metadata client.
NewPipeline(options, env) ==
    LET p1 == ApplyOptions(EmptyPipeline, options)
        id == ResolveProjectID(p1, env)
        p2 == [p1 EXCEPT !.projectID = id.projectID]
        defaults == IF p2.excludeDefaultTransformers
                    THEN [transformers |-> <<>>, err |-> NoError, asked |-> {}]
                    ELSE defaultTransformers(p2, env)
        p3 == [p2 EXCEPT !.transformers = ComposeChain(defaults.transformers, p2.transformers),
                         !.emitter = IF p2.emitter = "nil" THEN "default" ELSE p2.emitter,
                         !.closer = IF p2.closer = "nil" THEN "default" ELSE p2.closer]
    IN IF id.err # NoError
       THEN [pipeline |-> NilPipeline, err |-> id.err, asked |-> id.asked]
       ELSE IF defaults.err # NoError
       THEN [pipeline |-> NilPipeline, err |-> defaults.err,
             asked |-> id.asked \cup defaults.asked]
       ELSE IF env.clientFails
       THEN [pipeline |-> NilPipeline, err |-> MetricClientError,
             asked |-> id.asked \cup defaults.asked]
       ELSE [pipeline |-> [p3 EXCEPT !.client = "client"], err |-> NoError,
             asked |-> id.asked \cup defaults.asked]

\* The error p.client.Close() may return, wrapped by defaultCloser.
ClientCloseError == [kind |-> "failure closing metric client", at |-> 0, ts |-> 0]
\* What p.client.Close() returns is the client's: nil or an error.
ClientCloseResults == {NoError, ClientCloseError}

\* p.Close(), where p.client.Close() returns clientResult: closer nil, the
\* closer of WithWriterEmitter, defaultCloser.
PipelineClose(p, clientResult) ==
    IF p.closer = "nil" THEN NoError
    ELSE IF p.closer = "writer" THEN NoError
    ELSE IF p.client = "nil" THEN NoError
    ELSE clientResult

\* A BuildRequest that hands out the objects of one request on every call.
AllocateOnce(p, r, next) ==
    [series |-> 1,
     labels |-> p.metricLabels,
     resource |-> IF r.TimeSeries[1].Resource = NoResource THEN NilRef ELSE 2,
     points |-> IF r.TimeSeries[1].Points = <<>> THEN NilRef ELSE 3]

\* The objects the request r, built by BuildRequest of p, points to, next
\* being the first free address: BuildRequest allocates the request with its
\* series and its Metric, whose Labels are p.metricLabels; a resource
\* transformer allocates the MonitoredResource it sets, a value transformer
\* the Points it sets.
Allocate(p, r, next) ==
    [series |-> next,
     labels |-> p.metricLabels,
     resource |-> IF r.TimeSeries[1].Resource = NoResource THEN NilRef ELSE next + 1,
     points |-> IF r.TimeSeries[1].Points = <<>> THEN NilRef ELSE next + 2]

\* The parts of a request a caller may write to.
RequestParts == {"series", "labels", "resource", "points"}

\* BuildRequest assigns no field of p and appends to no slice of p.
PipelineAfterBuildRequest(p, m) == p

\* No second request built, nothing allocated, nothing written.
NoShare == [again |-> NotBuilt, refs |-> <<>>, written |-> {}, mutated |-> 0, next |-> 1]

\* The request BuildRequest of the Pipeline p allocates.
PipelineRequest(p) ==
    [NewRequest EXCEPT !.Name = <<"projects/", p.projectID>>,
                       !.TimeSeries[1].Metric.Type = p.metricType]
\* p.BuildRequest(metric)
PipelineBuildRequest(p, m) == RunTransformers(p.transformers, 1, PipelineRequest(p), m, 0)

\* ------------------------------------------------- inputs of a single call
\* The sequences over S of length at most n.
SeqsUpTo(S, n) == UNION {[1..k -> S] : k \in 0..n}
\* The nine transformers of transformers.go, and with them a user transformer.
BuiltIn ==
    {GenericNode, GCEInstance, GKEContainer, K8sCluster, K8sContainer, K8sNode, K8sPod,
     DoubleValue, IntegerValue}
UnitTransformers == BuiltIn \cup {User}
\* A metric type and labels other than the defaults, a resource and points a
\* series holds before the call.
OtherMetric == [Type |-> "replace-single-series", Labels |-> {<<"label", "value">>}]
OldResource == [Type |-> "replace-single-series", Labels |-> {<<"node_id", "replace-single-series">>}]
OldPoints ==
    << [StartTime |-> 0, EndTime |-> 0, Kind |-> "double", Value |-> 0],
       [StartTime |-> 0, EndTime |-> 0, Kind |-> "int64", Value |-> 1] >>
\* The series of the requests the tests hand to a transformer: with and
\* without a Resource, with and without Points.
UnitSeries ==
    [Metric : {[Type |-> DefaultMetricType, Labels |-> {}], OtherMetric},
     MetricKind : {"GAUGE"},
     Resource : {NoResource, OldResource},
     Points : {<<>>, OldPoints}]
\* The requests handed to a transformer: nil, or a request of up to MaxSeries
\* series. A nil and an empty series list are the same to a range loop.
UnitRequests ==
    {NilRequest} \cup
    {[Name |-> <<"projects/", "other">>, TimeSeries |-> ts] : ts \in SeqsUpTo(UnitSeries, MaxSeries)}
\* The samples: whole and fractional values, negative and positive, 5.5 and
\* -5.5 (or the nearest value below them in magnitude) among them, at whole
\* seconds and between them.
UnitMetrics ==
    [Value : {-((11 * ValueUnits) \div 2), -(ValueUnits + 1), 0, 1, 2 * ValueUnits + 1,
              (11 * ValueUnits) \div 2},
     Timestamp : 0..(UnitsPerSecond + 1)]
\* The chains BuildRequest runs: up to MaxChain transformers, resource, value
\* and user transformers in any order.
UnitChains == SeqsUpTo({GenericNode, GCEInstance, DoubleValue, IntegerValue, User}, MaxChain)

\* The options NewPipeline is given: those of cmd/gce-metric (a project, the
\* integer transformer, the writer emitter) and those of the package's users
\* (no defaults, a resource transformer of their own).
PipeOptions ==
    {WithProjectID("explicit-project"),
     WithoutDefaultTransformers,
     WithTransformers(<<IntegerValue>>),
     WithTransformers(<<K8sNode>>),
     WithWriterEmitter}
\* Options of which two of a kind differ, and the environments they are
\* handed to NewPipeline in: outside Google Cloud, and on Compute Engine.
OverrideOptions ==
    {WithProjectID("explicit-project"), WithProjectID("other-project"),
     WithMetricType("custom.googleapis.com/first"),
     WithMetricType("custom.googleapis.com/second"),
     WithTransformers(<<IntegerValue>>), WithTransformers(<<K8sNode>>),
     WithWriterEmitter, WithoutDefaultTransformers}
OverrideEnvironments ==
    {env \in Environments :
        ~env.kubernetes /\ env.metadataFails = "none" /\ ~env.clientFails}
\* The samples handed to BuildRequest of a Pipeline made by NewPipeline.
PipeMetrics ==
    {m \in UnitMetrics : m.Timestamp = UnitsPerSecond + 1 /\ m.Value \in {1, 2 * ValueUnits + 1}}
\* The calculators called on their own: every PeriodicType, a range between
\* two of a few bounds in either order, a phase of a whole number of quarters
\* from -MaxCycles to MaxCycles.
PeriodicTypes == {"invalid", "sawtooth", "sine", "square", "triangle", OtherPeriodicType}
RangeBounds == {-10 * ValueUnits, 0, 10 * ValueUnits, 20 * ValueUnits}
Calculators ==
    [kind : PeriodicTypes,
     a : RangeBounds,
     b : RangeBounds,
     num : (-MaxCycles * PhaseDen)..(MaxCycles * PhaseDen),
     den : {PhaseDen}]
\* No calculator has been called.
\* The names handed to ParsePeriodicType.
PeriodicNames ==
    {"", "unknown", "invalid", "Sawtooth", "SINE", "Square", "TRIANGLE",
     "sawtooth", "sine", "square", "triangle"}
NotCalculated == [unit |-> 0, value |-> 0, unitNext |-> 0, valueNext |-> 0]

\* ------------------------------------------------------------------- Init
\* No ticker, generator or Processor has run.
NotStarted ==
    /\ now = 0
    /\ ticker = <<>>
    /\ tickerClosed = FALSE
    /\ ch = <<>>
    /\ chClosed = FALSE
    /\ closeCount = 0
    /\ cancelled = FALSE
    /\ genPc = "idle"
    /\ firstTick = FALSE
    /\ tZero = 0
    /\ metric = NoMetric
    /\ procPc = "idle"
    /\ value = NoMetric
    /\ built = NotBuilt
    /\ procResult = NoError
    /\ procExit = "none"
    /\ readerPc = "read"
    /\ processed = <<>>
    /\ enqueued = <<>>
    /\ received = <<>>
    /\ emitted = <<>>
    /\ raised = <<>>
    /\ readerGot = <<>>
    /\ chAtClose = <<>>
    /\ recvMarks = <<>>

\* generatorMain is not part of the run; generatorMain has launched the two
\* goroutines and waits in its select.
NoMain == [pc |-> "none", closes |-> 0]
MainStarted == [pc |-> "select", closes |-> 0]

\* No transformer is called on its own.
NoCall ==
    /\ uMode = "idle"
    /\ uReq = NilRequest
    /\ uMetric = NoMetric
    /\ uChain = <<>>
    /\ uT = NoTransformer
    /\ uFailAt = 0
    /\ uCalls = 0
    /\ uOut = NotBuilt
    /\ uOptions = <<>>
    /\ uEnv = NoEnvironment
    /\ uPipe = NoPipeline
    /\ uCalc = NoCalculator
    /\ uParse = NotParsed
    /\ uClose = <<>>
    /\ uShare = NoShare

Init ==
    /\ NotStarted
    /\ bufferSize \in DefaultBufferSize..MaxBufferSize
    /\ transformers \in Chains
    /\ NoCall
    /\ main = NoMain

\* ------------------------------------------------------------ environment
\* The time source issues the next tick; a Ticker drops it when its channel is full.
Tick ==
    /\ now < MaxTicks
    /\ now' = now + 1
    /\ ticker' = IF Len(ticker) < TickerCap THEN Append(ticker, now + 1) ELSE ticker
    /\ UNCHANGED <<bufferSize, ch, chClosed, closeCount, cancelled, transformers, readerPc>>
    /\ UNCHANGED <<genVars, procVars, histVars>>
    /\ UNCHANGED <<tickerClosed, unitVars>>

\* cancel(): the caller cancels the shared context (an interrupt, a deadline).
Cancel ==
    /\ ~cancelled
    /\ cancelled' = TRUE
    /\ UNCHANGED <<now, ticker, bufferSize, ch, chClosed, closeCount, transformers, readerPc>>
    /\ UNCHANGED <<genVars, procVars, histVars>>
    /\ UNCHANGED <<tickerClosed, unitVars>>

\* ------------------------------------------------------ PeriodicGenerator
\* go periodicGenerator(ctx, ticker.C)
GenStart ==
    /\ genPc = "idle"
    /\ genPc' = "select"
    /\ UNCHANGED <<now, ticker, bufferSize, ch, chClosed, closeCount, cancelled,
                   firstTick, tZero, metric, transformers, readerPc>>
    /\ UNCHANGED <<procVars, histVars>>
    /\ UNCHANGED <<tickerClosed, unitVars>>

\* A generator that returns on cancellation and leaves the channel open.
GenCancelNoClose ==
    /\ genPc = "select"
    /\ cancelled
    /\ genPc' = "done"
    /\ UNCHANGED <<now, ticker, bufferSize, ch, chClosed, closeCount, cancelled, firstTick,
                   tZero, metric, transformers, readerPc>>
    /\ UNCHANGED <<procVars, histVars>>
    /\ UNCHANGED <<tickerClosed, unitVars>>

\* A generator that closes the channel on cancellation and stays in its loop.
GenCancelNoReturn ==
    /\ genPc = "select"
    /\ cancelled
    /\ ~chClosed
    /\ chClosed' = TRUE
    /\ closeCount' = closeCount + 1
    /\ chAtClose' = ch
    /\ UNCHANGED <<now, ticker, bufferSize, ch, cancelled, genPc, firstTick, tZero, metric,
                   transformers, readerPc>>
    /\ UNCHANGED <<procVars, processed, enqueued, received, emitted, raised, readerGot, recvMarks>>
    /\ UNCHANGED <<tickerClosed, unitVars>>

\* A generator that also returns, and closes the channel, when no tick is waiting.
GenCancelOnIdle ==
    /\ genPc = "select"
    /\ cancelled \/ ticker = <<>>
    /\ chClosed' = TRUE
    /\ closeCount' = closeCount + 1
    /\ genPc' = "done"
    /\ chAtClose' = ch
    /\ UNCHANGED <<now, ticker, bufferSize, ch, cancelled, firstTick, tZero, metric,
                   transformers, readerPc>>
    /\ UNCHANGED <<procVars, processed, enqueued, received, emitted, raised, readerGot, recvMarks>>
    /\ UNCHANGED <<tickerClosed, unitVars>>

\* case <-ctx.Done(): return, and the deferred close(ch). close() of a channel
\* that is closed already panics.
GenCancel ==
    /\ genPc = "select"
    /\ cancelled
    /\ chClosed' = TRUE
    /\ closeCount' = closeCount + 1
    /\ genPc' = IF chClosed THEN "panic" ELSE "done"
    /\ chAtClose' = IF chClosed THEN chAtClose ELSE ch
    /\ UNCHANGED <<now, ticker, bufferSize, ch, cancelled, firstTick, tZero, metric,
                   transformers, readerPc>>
    /\ UNCHANGED <<procVars, processed, enqueued, received, emitted, raised, readerGot, recvMarks>>
    /\ UNCHANGED <<tickerClosed, unitVars>>

\* A generator without the sync.Once: every tick sets tZero.
GenTickNoOnce ==
    /\ genPc = "select"
    /\ ticker # <<>>
    /\ LET tick == Head(ticker)
       IN /\ firstTick' = TRUE
          /\ tZero' = tick
          /\ metric' = NewMetric(tick, tick)
    /\ ticker' = Tail(ticker)
    /\ genPc' = "send"
    /\ UNCHANGED <<now, bufferSize, ch, chClosed, closeCount, cancelled, transformers, readerPc>>
    /\ UNCHANGED <<procVars, histVars>>
    /\ UNCHANGED <<tickerClosed, unitVars>>

\* case tick := <-ticker: the first tick sets tZero, then the Metric is built.
GenTick ==
    /\ genPc = "select"
    /\ ticker # <<>>
    /\ LET tick == Head(ticker)
           t0 == IF firstTick THEN tZero ELSE tick
       IN /\ firstTick' = TRUE
          /\ tZero' = t0
          /\ metric' = NewMetric(tick, t0)
    /\ ticker' = Tail(ticker)
    /\ genPc' = "send"
    /\ UNCHANGED <<now, bufferSize, ch, chClosed, closeCount, cancelled, transformers, readerPc>>
    /\ UNCHANGED <<procVars, histVars>>
    /\ UNCHANGED <<tickerClosed, unitVars>>

\* A send that buffers the sample when the channel is full.
TrySendUnbounded(c, cap, m) == Append(c, m)

\* A send that puts the sample at the front of the channel.
TrySendFront(c, cap, m) == IF Len(c) < cap THEN <<m>> \o c ELSE c

\* A send that keeps the latest sample: it evicts the oldest one when the channel is full.
TrySendLatest(c, cap, m) == IF Len(c) < cap THEN Append(c, m) ELSE Append(Tail(c), m)

\* select { case ch <- metric: default: } on a channel holding c, of capacity cap:
\* what the channel holds afterwards.
TrySend(c, cap, m) == IF Len(c) < cap THEN Append(c, m) ELSE c

\* The inner select of the generator: the send or the drop, then back to the
\* loop. A send on a closed channel panics.
GenSend ==
    /\ genPc = "send"
    /\ ch' = IF chClosed THEN ch ELSE TrySend(ch, bufferSize, metric)
    /\ processed' = IF chClosed THEN processed ELSE Append(processed, metric.Timestamp)
    /\ enqueued' = IF ch' # ch THEN Append(enqueued, metric.Timestamp) ELSE enqueued
    /\ metric' = IF chClosed THEN metric ELSE NoMetric
    /\ genPc' = IF chClosed THEN "panic" ELSE "select"
    /\ UNCHANGED <<now, ticker, bufferSize, chClosed, closeCount, cancelled, firstTick, tZero,
                   transformers, readerPc>>
    /\ UNCHANGED <<procVars, received, emitted, raised, readerGot, chAtClose, recvMarks>>
    /\ UNCHANGED <<tickerClosed, unitVars>>

\* The caller invokes the generator function once more after it returned, with
\* the same context and ticker: the locals firstTick and tZero are new, the
\* channel is the one made by NewPeriodicGenerator.
GenInvokeAgain ==
    /\ genPc = "done"
    /\ genPc' = "select"
    /\ firstTick' = FALSE
    /\ tZero' = 0
    /\ UNCHANGED <<now, ticker, bufferSize, ch, chClosed, closeCount, cancelled, metric,
                   transformers, readerPc>>
    /\ UNCHANGED <<procVars, histVars>>
    /\ UNCHANGED <<tickerClosed, unitVars>>

\* -------------------------------------------------------------- Processor
\* go func() { processor(ctx, reader) ... }()
ProcStart ==
    /\ procPc = "idle"
    /\ procPc' = "select"
    /\ UNCHANGED <<now, ticker, bufferSize, ch, chClosed, closeCount, cancelled, transformers,
                   value, built, procResult, procExit, readerPc>>
    /\ UNCHANGED <<genVars, histVars>>
    /\ UNCHANGED <<tickerClosed, unitVars>>

\* A Processor that returns the context's error on cancellation.
ProcCancelErr ==
    /\ procPc = "select"
    /\ cancelled
    /\ procPc' = "returned"
    /\ procResult' = [kind |-> "context", at |-> 0, ts |-> 0]
    /\ procExit' = "cancel"
    /\ UNCHANGED <<now, ticker, bufferSize, ch, chClosed, closeCount, cancelled, transformers,
                   value, built, readerPc>>
    /\ UNCHANGED <<genVars, histVars>>
    /\ UNCHANGED <<tickerClosed, unitVars>>

\* case <-ctx.Done(): return nil
ProcCancel ==
    /\ procPc = "select"
    /\ cancelled
    /\ procPc' = "returned"
    /\ procResult' = NoError
    /\ procExit' = "cancel"
    /\ UNCHANGED <<now, ticker, bufferSize, ch, chClosed, closeCount, cancelled, transformers,
                   value, built, readerPc>>
    /\ UNCHANGED <<genVars, histVars>>
    /\ UNCHANGED <<tickerClosed, unitVars>>

\* case value, ok := <-input with ok true
ProcRecv ==
    /\ procPc = "select"
    /\ ch # <<>>
    /\ value' = Head(ch)
    /\ ch' = Tail(ch)
    /\ received' = Append(received, Head(ch).Timestamp)
    /\ recvMarks' = Append(recvMarks, Len(processed))
    /\ procPc' = "build"
    /\ UNCHANGED <<now, ticker, bufferSize, chClosed, closeCount, cancelled, transformers,
                   built, procResult, procExit, readerPc>>
    /\ UNCHANGED <<genVars, processed, enqueued, emitted, raised, readerGot, chAtClose>>
    /\ UNCHANGED <<tickerClosed, unitVars>>

\* A receive that reports a closed channel while samples are still buffered.
ProcClosedEarly ==
    /\ procPc = "select"
    /\ chClosed
    /\ procPc' = "returned"
    /\ procResult' = NoError
    /\ procExit' = "closed"
    /\ UNCHANGED <<now, ticker, bufferSize, ch, chClosed, closeCount, cancelled, transformers,
                   value, built, readerPc>>
    /\ UNCHANGED <<genVars, histVars>>
    /\ UNCHANGED <<tickerClosed, unitVars>>

\* case value, ok := <-input with ok false: return nil
ProcClosed ==
    /\ procPc = "select"
    /\ ch = <<>>
    /\ chClosed
    /\ procPc' = "returned"
    /\ procResult' = NoError
    /\ procExit' = "closed"
    /\ UNCHANGED <<now, ticker, bufferSize, ch, chClosed, closeCount, cancelled, transformers,
                   value, built, readerPc>>
    /\ UNCHANGED <<genVars, histVars>>
    /\ UNCHANGED <<tickerClosed, unitVars>>

\* A Processor that returns nil when BuildRequest fails.
ProcBuildReturnsNil ==
    /\ procPc = "build"
    /\ \E failAt \in Fallible(transformers) :
         LET res == BuildRequest(transformers, value, failAt)
         IN /\ built' = res
            /\ IF res.err # NoError
               THEN /\ procPc' = "returned"
                    /\ procResult' = NoError
                    /\ procExit' = "build"
                    /\ raised' = Append(raised, res.err)
               ELSE /\ procPc' = "emit"
                    /\ UNCHANGED <<procResult, procExit, raised>>
    /\ UNCHANGED <<now, ticker, bufferSize, ch, chClosed, closeCount, cancelled, transformers,
                   value, readerPc>>
    /\ UNCHANGED <<genVars, processed, enqueued, received, emitted, readerGot, chAtClose, recvMarks>>
    /\ UNCHANGED <<tickerClosed, unitVars>>

\* A Processor that hands the request to the Emitter whatever BuildRequest returned.
ProcBuildIgnoresErr ==
    /\ procPc = "build"
    /\ \E failAt \in Fallible(transformers) :
         LET res == BuildRequest(transformers, value, failAt)
         IN /\ built' = res
            /\ procPc' = "emit"
            /\ raised' = IF res.err # NoError THEN Append(raised, res.err) ELSE raised
            /\ UNCHANGED <<procResult, procExit>>
    /\ UNCHANGED <<now, ticker, bufferSize, ch, chClosed, closeCount, cancelled, transformers,
                   value, readerPc>>
    /\ UNCHANGED <<genVars, processed, enqueued, received, emitted, readerGot, chAtClose, recvMarks>>
    /\ UNCHANGED <<tickerClosed, unitVars>>

\* req, err := p.BuildRequest(value); if err != nil { return err }
ProcBuild ==
    /\ procPc = "build"
    /\ \E failAt \in Fallible(transformers) :
         LET res == BuildRequest(transformers, value, failAt)
         IN /\ built' = res
            /\ IF res.err # NoError
               THEN /\ procPc' = "returned"
                    /\ procResult' = res.err
                    /\ procExit' = "build"
                    /\ raised' = Append(raised, res.err)
               ELSE /\ procPc' = "emit"
                    /\ UNCHANGED <<procResult, procExit, raised>>
    /\ UNCHANGED <<now, ticker, bufferSize, ch, chClosed, closeCount, cancelled, transformers,
                   value, readerPc>>
    /\ UNCHANGED <<genVars, processed, enqueued, received, emitted, readerGot, chAtClose, recvMarks>>
    /\ UNCHANGED <<tickerClosed, unitVars>>

\* A Processor that goes on with the next sample when the Emitter fails.
ProcEmitContinues ==
    /\ procPc = "emit"
    /\ \E fails \in BOOLEAN :
         LET err == IF fails THEN EmitterError(value) ELSE NoError
         IN /\ emitted' = Append(emitted, [ts |-> value.Timestamp, req |-> built.req,
                                           applied |-> built.applied, buildErr |-> built.err,
                                           err |-> err])
            /\ raised' = IF fails THEN Append(raised, err) ELSE raised
            /\ procPc' = "select"
            /\ UNCHANGED <<procResult, procExit>>
    /\ UNCHANGED <<now, ticker, bufferSize, ch, chClosed, closeCount, cancelled, transformers,
                   value, built, readerPc>>
    /\ UNCHANGED <<genVars, processed, enqueued, received, readerGot, chAtClose, recvMarks>>
    /\ UNCHANGED <<tickerClosed, unitVars>>

\* if err := p.emitter(ctx, req); err != nil { return err }
ProcEmit ==
    /\ procPc = "emit"
    /\ \E fails \in BOOLEAN :
         LET err == IF fails THEN EmitterError(value) ELSE NoError
         IN /\ emitted' = Append(emitted, [ts |-> value.Timestamp, req |-> built.req,
                                           applied |-> built.applied, buildErr |-> built.err,
                                           err |-> err])
            /\ IF fails
               THEN /\ procPc' = "returned"
                    /\ procResult' = err
                    /\ procExit' = "emit"
                    /\ raised' = Append(raised, err)
               ELSE /\ procPc' = "select"
                    /\ UNCHANGED <<procResult, procExit, raised>>
    /\ UNCHANGED <<now, ticker, bufferSize, ch, chClosed, closeCount, cancelled, transformers,
                   value, built, readerPc>>
    /\ UNCHANGED <<genVars, processed, enqueued, received, readerGot, chAtClose, recvMarks>>
    /\ UNCHANGED <<tickerClosed, unitVars>>

\* The goroutine that ran the Processor: an error cancels the shared context.
ProcExit ==
    /\ procPc = "returned"
    /\ procPc' = "exited"
    /\ cancelled' = (cancelled \/ procResult # NoError)
    /\ UNCHANGED <<now, ticker, bufferSize, ch, chClosed, closeCount, transformers,
                   value, built, procResult, procExit, readerPc>>
    /\ UNCHANGED <<genVars, histVars>>
    /\ UNCHANGED <<tickerClosed, unitVars>>

\* ----------------------------------------------------------- plain reader
\* A caller that, once it has cancelled the context, receives from the
\* channel until the receive reports it closed.
ReaderRecv ==
    /\ readerPc = "read"
    /\ cancelled
    /\ ch # <<>>
    /\ ch' = Tail(ch)
    /\ readerGot' = Append(readerGot, Head(ch).Timestamp)
    /\ UNCHANGED <<now, ticker, bufferSize, chClosed, closeCount, cancelled, transformers, readerPc>>
    /\ UNCHANGED <<genVars, procVars, processed, enqueued, received, emitted, raised, chAtClose, recvMarks>>
    /\ UNCHANGED <<tickerClosed, unitVars>>

ReaderClosed ==
    /\ readerPc = "read"
    /\ cancelled
    /\ ch = <<>>
    /\ chClosed
    /\ readerPc' = "closed"
    /\ UNCHANGED <<now, ticker, bufferSize, ch, chClosed, closeCount, cancelled, transformers>>
    /\ UNCHANGED <<genVars, procVars, histVars>>
    /\ UNCHANGED <<tickerClosed, unitVars>>

\* ---------------------------------------------------------- specifications
\* ----------------------------------------------------------- a single call
\* A transformer or BuildRequest is about to be called once, as the tests of
\* transformers_test.go and pipeline_test.go do, with no generator running.
UnitInit ==
    /\ NotStarted
    /\ bufferSize = DefaultBufferSize
    /\ transformers = <<GenericNode, DoubleValue>>
    /\ uMetric \in UnitMetrics
    /\ uT = NoTransformer
    /\ uFailAt = 0
    /\ uCalls = 0
    /\ uOut = NotBuilt
    /\ uOptions = <<>>
    /\ uEnv = NoEnvironment
    /\ uPipe = NoPipeline
    /\ uCalc = NoCalculator
    /\ uParse = NotParsed
    /\ uClose = <<>>
    /\ uShare = NoShare
    /\ main = NoMain
    /\ \/ /\ uMode = "transformer"
          /\ uReq \in UnitRequests
          /\ uChain = <<>>
       \/ /\ uMode = "build"
          /\ uReq = NilRequest
          /\ uChain \in UnitChains

\* err := transformer(req, metric)
UnitTransform ==
    /\ uMode = "transformer"
    /\ uCalls = 0
    /\ \E t \in UnitTransformers : \E fails \in BOOLEAN :
          /\ fails => t = User
          /\ uT' = t
          /\ uFailAt' = IF fails THEN 1 ELSE 0
          /\ LET res == Transformer(t, 1, uReq, uMetric, fails)
             IN uOut' = [req |-> res.req, err |-> res.err,
                         applied |-> IF res.err = NoError THEN 1 ELSE 0]
    /\ uCalls' = 1
    /\ UNCHANGED <<now, ticker, bufferSize, ch, chClosed, closeCount, cancelled, transformers,
                   readerPc, tickerClosed>>
    /\ UNCHANGED <<genVars, procVars, histVars, main>>
    /\ UNCHANGED <<uMode, uReq, uMetric, uChain, callVars>>

\* req, err := pipeline.BuildRequest(metric)
UnitBuild ==
    /\ uMode = "build"
    /\ uCalls = 0
    /\ \E failAt \in Fallible(uChain) :
          /\ uFailAt' = failAt
          /\ uOut' = BuildRequest(uChain, uMetric, failAt)
    /\ uCalls' = 1
    /\ UNCHANGED <<now, ticker, bufferSize, ch, chClosed, closeCount, cancelled, transformers,
                   readerPc, tickerClosed>>
    /\ UNCHANGED <<genVars, procVars, histVars, main>>
    /\ UNCHANGED <<uMode, uReq, uMetric, uChain, uT, callVars>>

\* err = transformer(req, metric), once more: the same transformer on the
\* request the first call left, with the same metric.
UnitTransformAgain ==
    /\ uMode = "transformer"
    /\ uCalls = 1
    /\ LET res == Transformer(uT, 1, uOut.req, uMetric, uFailAt = 1)
       IN uOut' = [req |-> res.req, err |-> res.err,
                   applied |-> IF res.err = NoError THEN 1 ELSE 0]
    /\ uCalls' = 2
    /\ UNCHANGED <<now, ticker, bufferSize, ch, chClosed, closeCount, cancelled, transformers,
                   readerPc, tickerClosed>>
    /\ UNCHANGED <<genVars, procVars, histVars, main>>
    /\ UNCHANGED <<uMode, uReq, uMetric, uChain, uT, uFailAt, callVars>>

UnitNext == UnitTransform \/ UnitTransformAgain \/ UnitBuild

\* ------------------------------------------------------- NewPipeline alone
\* NewPipeline is about to be called with some options in some environment,
\* as the tests of the pipeline package and generatorMain do.
PipeInit ==
    /\ NotStarted
    /\ bufferSize = DefaultBufferSize
    /\ transformers = <<GenericNode, DoubleValue>>
    /\ uMode = "pipeline"
    /\ uReq = NilRequest
    /\ uMetric = NoMetric
    /\ uChain = <<>>
    /\ uT = NoTransformer
    /\ uFailAt = 0
    /\ uCalls = 0
    /\ uOut = NotBuilt
    /\ uOptions \in SeqsUpTo(PipeOptions, MaxOptions)
    /\ uEnv \in Environments
    /\ uPipe = NoPipeline
    /\ uCalc = NoCalculator
    /\ uParse = NotParsed
    /\ uClose = <<>>
    /\ uShare = NoShare
    /\ main = NoMain

\* pipe, err := pipeline.NewPipeline(ctx, options...)
PipeNew ==
    /\ uMode = "pipeline"
    /\ uCalls = 0
    /\ uPipe' = NewPipeline(uOptions, uEnv)
    /\ uCalls' = 1
    /\ UNCHANGED <<now, ticker, bufferSize, ch, chClosed, closeCount, cancelled, transformers,
                   readerPc, tickerClosed>>
    /\ UNCHANGED <<genVars, procVars, histVars, main>>
    /\ UNCHANGED <<uMode, uReq, uMetric, uChain, uT, uFailAt, uOut, uOptions, uEnv, uCalc, uParse, uClose, uShare>>

\* req, err := pipe.BuildRequest(metric), on the Pipeline NewPipeline returned.
PipeBuild ==
    /\ uMode = "pipeline"
    /\ uCalls = 1
    /\ uPipe.err = NoError
    /\ \E m \in PipeMetrics :
          /\ uMetric' = m
          /\ uOut' = PipelineBuildRequest(uPipe.pipeline, m)
          /\ uPipe' = [uPipe EXCEPT !.pipeline = PipelineAfterBuildRequest(@, m)]
          /\ uShare' = [uShare EXCEPT
                           !.refs = Append(@, Allocate(uPipe.pipeline,
                                                       PipelineBuildRequest(uPipe.pipeline, m).req,
                                                       uShare.next)),
                           !.next = @ + 3]
    /\ uCalls' = 2
    /\ UNCHANGED <<now, ticker, bufferSize, ch, chClosed, closeCount, cancelled, transformers,
                   readerPc, tickerClosed>>
    /\ UNCHANGED <<genVars, procVars, histVars, main>>
    /\ UNCHANGED <<uMode, uReq, uChain, uT, uFailAt, uOptions, uEnv, uCalc, uParse, uClose>>

\* req, err := pipe.BuildRequest(metric), a second time with the same metric.
PipeBuildAgain ==
    /\ uMode = "pipeline"
    /\ uCalls = 2
    /\ uPipe.err = NoError
    /\ uPipe' = [uPipe EXCEPT !.pipeline = PipelineAfterBuildRequest(@, uMetric)]
    /\ uShare' = [uShare EXCEPT
                     !.again = PipelineBuildRequest(uPipe.pipeline, uMetric),
                     !.refs = Append(@, Allocate(uPipe.pipeline,
                                                 PipelineBuildRequest(uPipe.pipeline, uMetric).req,
                                                 uShare.next)),
                     !.next = @ + 3]
    /\ uCalls' = 3
    /\ UNCHANGED <<now, ticker, bufferSize, ch, chClosed, closeCount, cancelled, transformers,
                   readerPc, tickerClosed>>
    /\ UNCHANGED <<genVars, procVars, histVars, main>>
    /\ UNCHANGED <<uMode, uReq, uMetric, uChain, uT, uFailAt, uOut>>
    /\ UNCHANGED <<uOptions, uEnv, uCalc, uParse, uClose>>

\* The caller writes to a part of a request BuildRequest returned: to the
\* object the part points to, or to the series itself where the part is nil
\* and the caller has to set it.
PipeMutate ==
    /\ uMode = "pipeline"
    /\ uCalls \in {2, 3}
    /\ uShare.mutated = 0
    /\ \E k \in 1..Len(uShare.refs), part \in RequestParts :
          uShare' = [uShare EXCEPT
                        !.mutated = k,
                        !.written = {IF uShare.refs[k][part] = NilRef
                                     THEN uShare.refs[k].series
                                     ELSE uShare.refs[k][part]}]
    /\ UNCHANGED <<now, ticker, bufferSize, ch, chClosed, closeCount, cancelled, transformers,
                   readerPc, tickerClosed>>
    /\ UNCHANGED <<genVars, procVars, histVars, main>>
    /\ UNCHANGED <<uMode, uReq, uMetric, uChain, uT, uFailAt, uCalls, uOut>>
    /\ UNCHANGED <<uOptions, uEnv, uPipe, uCalc, uParse, uClose>>

\* err := pipe.Close(), before or after BuildRequest, any number of times.
PipeClose ==
    /\ uMode = "pipeline"
    /\ uCalls >= 1
    /\ uPipe.err = NoError
    /\ Len(uClose) < MaxCloses
    /\ \E clientResult \in ClientCloseResults :
          uClose' = Append(uClose, PipelineClose(uPipe.pipeline, clientResult))
    /\ UNCHANGED <<now, ticker, bufferSize, ch, chClosed, closeCount, cancelled, transformers,
                   readerPc, tickerClosed>>
    /\ UNCHANGED <<genVars, procVars, histVars, main>>
    /\ UNCHANGED <<uMode, uReq, uMetric, uChain, uT, uFailAt, uCalls, uOut>>
    /\ UNCHANGED <<uOptions, uEnv, uPipe, uCalc, uParse, uShare>>

PipeNext == PipeNew \/ PipeBuild \/ PipeClose

PipeSpec == PipeInit /\ [][PipeNext]_vars

\* NewPipeline with options of which two of a kind differ.
OptionInit ==
    /\ NotStarted
    /\ bufferSize = DefaultBufferSize
    /\ transformers = <<GenericNode, DoubleValue>>
    /\ uMode = "pipeline"
    /\ uReq = NilRequest
    /\ uMetric = NoMetric
    /\ uChain = <<>>
    /\ uT = NoTransformer
    /\ uFailAt = 0
    /\ uCalls = 0
    /\ uOut = NotBuilt
    /\ uOptions \in SeqsUpTo(OverrideOptions, MaxOptions)
    /\ uEnv \in OverrideEnvironments
    /\ uPipe = NoPipeline
    /\ uCalc = NoCalculator
    /\ uParse = NotParsed
    /\ uClose = <<>>
    /\ uShare = NoShare
    /\ main = NoMain

OptionNext == PipeNew \/ PipeBuild

OptionSpec == OptionInit /\ [][OptionNext]_vars

\* A Pipeline made by NewPipeline, BuildRequest called twice on it with the
\* same metric, and a write of the caller to one of the requests returned.
ShareNext == PipeNew \/ PipeBuild \/ PipeBuildAgain \/ PipeMutate

ShareSpec == PipeInit /\ [][ShareNext]_vars

\* ------------------------------------------------------ a calculator alone
\* A calculator is about to be called at a phase, as the tests of types_test.go do.
CalcInit ==
    /\ NotStarted
    /\ bufferSize = DefaultBufferSize
    /\ transformers = <<GenericNode, DoubleValue>>
    /\ uMode = "calculator"
    /\ uReq = NilRequest
    /\ uMetric = NoMetric
    /\ uChain = <<>>
    /\ uT = NoTransformer
    /\ uFailAt = 0
    /\ uCalls = 0
    /\ uOut = NotCalculated
    /\ uOptions = <<>>
    /\ uEnv = NoEnvironment
    /\ uPipe = NoPipeline
    /\ uCalc \in Calculators
    /\ uParse = NotParsed
    /\ uClose = <<>>
    /\ uShare = NoShare
    /\ main = NoMain

\* value := calculator(phase), for the unit calculator of the kind and for
\* the range calculator between a and b.
CalcApply ==
    /\ uMode = "calculator"
    /\ uCalls = 0
    /\ uOut' = [uOut EXCEPT
                   !.unit = ValueCalculator(uCalc.kind, uCalc.num, uCalc.den),
                   !.value = NewPeriodicRangeCalculator(uCalc.a, uCalc.b, uCalc.kind,
                                                        uCalc.num, uCalc.den)]
    /\ uCalls' = 1
    /\ UNCHANGED <<now, ticker, bufferSize, ch, chClosed, closeCount, cancelled, transformers,
                   readerPc, tickerClosed>>
    /\ UNCHANGED <<genVars, procVars, histVars, main>>
    /\ UNCHANGED <<uMode, uReq, uMetric, uChain, uT, uFailAt, callVars>>

\* value := calculator(phase + 1.0), for the same two calculators.
CalcApplyNext ==
    /\ uMode = "calculator"
    /\ uCalls = 1
    /\ uOut' = [uOut EXCEPT
                   !.unitNext = ValueCalculator(uCalc.kind, uCalc.num + uCalc.den, uCalc.den),
                   !.valueNext = NewPeriodicRangeCalculator(uCalc.a, uCalc.b, uCalc.kind,
                                                            uCalc.num + uCalc.den, uCalc.den)]
    /\ uCalls' = 2
    /\ UNCHANGED <<now, ticker, bufferSize, ch, chClosed, closeCount, cancelled, transformers,
                   readerPc, tickerClosed>>
    /\ UNCHANGED <<genVars, procVars, histVars, main>>
    /\ UNCHANGED <<uMode, uReq, uMetric, uChain, uT, uFailAt, callVars>>

\* periodicType, err := ParsePeriodicType(name); the calculator called next is
\* the one of periodicType.
CalcParse ==
    /\ uMode = "calculator"
    /\ uCalls = 0
    /\ uParse = NotParsed
    /\ \E name \in PeriodicNames :
          /\ uParse' = [name |-> name, result |-> ParsePeriodicType(name)]
          /\ uCalc' = [uCalc EXCEPT !.kind = ParsePeriodicType(name).kind]
    /\ UNCHANGED <<now, ticker, bufferSize, ch, chClosed, closeCount, cancelled, transformers,
                   readerPc, tickerClosed>>
    /\ UNCHANGED <<genVars, procVars, histVars, main>>
    /\ UNCHANGED <<uMode, uReq, uMetric, uChain, uT, uFailAt, uCalls, uOut, uOptions, uEnv, uPipe, uClose, uShare>>

CalcNext == CalcParse \/ CalcApply \/ CalcApplyNext

CalcSpec == CalcInit /\ [][CalcNext]_vars

UnitSpec == UnitInit /\ [][UnitNext]_vars

Next ==
    \/ Tick
    \/ Cancel
    \/ GenStart
    \/ GenCancel
    \/ GenTick
    \/ GenSend
    \/ ProcStart
    \/ ProcCancel
    \/ ProcRecv
    \/ ProcClosed
    \/ ProcBuild
    \/ ProcEmit
    \/ ProcExit

Spec == Init /\ [][Next]_vars

\* The generator with a plain reader next to the Processor, under the
\* fairness of the Go scheduler: a goroutine that can run does run, and a
\* select chooses among its ready cases at random, so that a case that is
\* ready again and again is chosen in the end.
NextReader == Next \/ ReaderRecv \/ ReaderClosed

Fairness ==
    /\ WF_vars(GenStart)
    /\ WF_vars(GenSend)
    /\ SF_vars(GenCancel)
    /\ WF_vars(ReaderRecv)
    /\ WF_vars(ReaderClosed)

FairSpec == Init /\ [][NextReader]_vars /\ Fairness

\* -------------------------------------------------------- generatorMain
\* The process runs: main() has not returned.
Alive == main.pc # "exited"

\* A generatorMain that returns on cancellation without closing the pipeline.
MainDoneNoClose ==
    /\ main.pc = "select"
    /\ cancelled
    /\ main' = [main EXCEPT !.pc = "returned"]
    /\ UNCHANGED <<now, ticker, bufferSize, ch, chClosed, closeCount, cancelled, transformers,
                   readerPc, tickerClosed>>
    /\ UNCHANGED <<genVars, procVars, histVars>>
    /\ UNCHANGED <<uMode, uReq, uMetric, uChain, uT, uFailAt, uCalls, uOut, callVars>>

\* case <-ctx.Done(): ticker.Stop(); return nil, and the deferred
\* ticker.Stop(), pipe.Close() and cancel().
MainDone ==
    /\ main.pc = "select"
    /\ cancelled
    /\ main' = [main EXCEPT !.pc = "returned", !.closes = @ + 1]
    /\ UNCHANGED <<now, ticker, bufferSize, ch, chClosed, closeCount, cancelled, transformers,
                   readerPc, tickerClosed>>
    /\ UNCHANGED <<genVars, procVars, histVars>>
    /\ UNCHANGED <<uMode, uReq, uMetric, uChain, uT, uFailAt, uCalls, uOut, callVars>>

\* case sig := <-interrupt: ticker.Stop(); cancel(); return nil, and the
\* deferred ticker.Stop(), pipe.Close() and cancel().
MainInterrupt ==
    /\ main.pc = "select"
    /\ cancelled' = TRUE
    /\ main' = [main EXCEPT !.pc = "returned", !.closes = @ + 1]
    /\ UNCHANGED <<now, ticker, bufferSize, ch, chClosed, closeCount, transformers,
                   readerPc, tickerClosed>>
    /\ UNCHANGED <<genVars, procVars, histVars>>
    /\ UNCHANGED <<uMode, uReq, uMetric, uChain, uT, uFailAt, uCalls, uOut, callVars>>

\* rootCmd.Execute() returns and main() with it: the process exits, and the
\* goroutines with it.
MainExit ==
    /\ main.pc = "returned"
    /\ main' = [main EXCEPT !.pc = "exited"]
    /\ UNCHANGED <<now, ticker, bufferSize, ch, chClosed, closeCount, cancelled, transformers,
                   readerPc, tickerClosed>>
    /\ UNCHANGED <<genVars, procVars, histVars>>
    /\ UNCHANGED <<uMode, uReq, uMetric, uChain, uT, uFailAt, uCalls, uOut, callVars>>

\* The ticker ticks until generatorMain stops it.
MainTick == main.pc = "select" /\ Tick

\* The two goroutines of generatorMain, while the process runs.
MainGoroutines ==
    /\ Alive
    /\ \/ GenStart
       \/ GenCancel
       \/ GenTick
       \/ GenSend
       \/ ProcStart
       \/ ProcCancel
       \/ ProcRecv
       \/ ProcClosed
       \/ ProcBuild
       \/ ProcEmit
       \/ ProcExit

MainInit ==
    /\ NotStarted
    /\ bufferSize = DefaultBufferSize
    /\ transformers \in Chains
    /\ NoCall
    /\ main = MainStarted

MainNext == MainTick \/ MainGoroutines \/ MainDone \/ MainInterrupt \/ MainExit

\* The Go scheduler runs a goroutine that can run; generatorMain takes the
\* case of its select that is ready; main() returns once Execute has.
MainFairness ==
    /\ WF_vars(Alive /\ GenStart)
    /\ WF_vars(Alive /\ GenSend)
    /\ SF_vars(Alive /\ GenCancel)
    /\ WF_vars(Alive /\ ProcExit)
    /\ WF_vars(MainDone)
    /\ WF_vars(MainExit)

MainSpec == MainInit /\ [][MainNext]_vars /\ MainFairness

\* The generator function invoked again and again by its caller.
NextAgain == Next \/ GenInvokeAgain

AgainSpec == Init /\ [][NextAgain]_vars


\* ================================================================ claims
\* The timestamps of a sequence of Metric values.
Timestamps(c) == [i \in 1..Len(c) |-> c[i].Timestamp]

\* Whether a is b with some of its elements left out, the order kept.
RECURSIVE IsSubsequence(_, _)
IsSubsequence(a, b) ==
    IF a = <<>> THEN TRUE
    ELSE IF b = <<>> THEN FALSE
    ELSE IF Head(a) = Head(b) THEN IsSubsequence(Tail(a), Tail(b))
    ELSE IsSubsequence(a, Tail(b))

\* Whether a sequence of numbers is strictly increasing.
Increasing(a) == \A i \in 1..Len(a) : \A j \in 1..Len(a) : i < j => a[i] < a[j]

ProcReturned == procPc \in {"returned", "exited"}

\* C1: the send of the generator is non-blocking and drops on a full channel:
\* the channel never holds more than its capacity c; as long as nothing has
\* been read, after n processed ticks it holds the samples of the first
\* min(n, c) of them and the sample of every later tick was dropped; and a
\* generator that holds a sample can always take its send step.
C1_DropOnFull ==
    /\ Len(ch) <= bufferSize
    /\ (received = <<>> /\ readerGot = <<>>) =>
          /\ Len(ch) = Min(Len(processed), bufferSize)
          /\ Timestamps(ch) = SubSeq(processed, 1, Min(Len(processed), bufferSize))
          /\ enqueued = Timestamps(ch)
    /\ genPc = "send" => ENABLED GenSend

\* Capacity 1, two ticks processed before any read: one sample in the channel.
C1_Witness ==
    /\ bufferSize = 1
    /\ Len(processed) = 2
    /\ received = <<>>
    /\ Timestamps(ch) = <<processed[1]>>
    /\ genPc = "select"

\* C9: the samples the Processor receives and emits are an order-preserving
\* subsequence of the ticks the generator processed: none is duplicated,
\* reordered or made up, and the Emitter sees them in the order received.
C9_FifoSubsequence ==
    /\ IsSubsequence(received, enqueued)
    /\ IsSubsequence(enqueued, processed)
    /\ Increasing(received)
    /\ Len(emitted) <= Len(received)
    /\ [i \in 1..Len(emitted) |-> emitted[i].ts] = SubSeq(received, 1, Len(emitted))

\* Two samples received with a dropped tick between them.
C9_Witness ==
    /\ Len(received) = 2
    /\ received[2] > received[1] + 1
    /\ received[1] + 1 \in {processed[i] : i \in 1..Len(processed)}
    /\ Len(emitted) = 2

\* C10 as stated: with capacity 1 the Processor receives the sample of the
\* most recent tick processed before the receive.
C10_LatestWins ==
    [][(bufferSize = DefaultBufferSize /\ procPc = "select" /\ procPc' = "build")
          => value'.Timestamp = processed[Len(processed)]]_vars

\* C10 amended: with capacity 1 the earliest value wins.  The channel holds
\* the sample of the first tick processed since the previous receive (it is
\* empty when there was none), so the k-th sample received is the one of the
\* first tick processed after receive k-1; the later ones were dropped.
C10_EarliestWins ==
    bufferSize = DefaultBufferSize =>
        /\ Len(recvMarks) = Len(received)
        /\ \A k \in 1..Len(received) :
              received[k] = processed[(IF k = 1 THEN 0 ELSE recvMarks[k - 1]) + 1]
        /\ LET mark == IF recvMarks = <<>> THEN 0 ELSE recvMarks[Len(recvMarks)]
           IN IF Len(processed) > mark
              THEN Timestamps(ch) = <<processed[mark + 1]>>
              ELSE ch = <<>>
        /\ procPc \in {"build", "emit"} => value.Timestamp = received[Len(received)]

\* Capacity 1, two ticks processed, then the Processor receives the first one.
C10_Witness ==
    /\ bufferSize = DefaultBufferSize
    /\ procPc = "build"
    /\ Len(processed) = 2
    /\ received = <<processed[1]>>
    /\ recvMarks = <<2>>
    /\ value.Timestamp = processed[1]


\* C2: under fair scheduling, once the context is cancelled the generator
\* closes its channel and terminates, whether or not ticks keep arriving, and
\* a reader of the channel that keeps receiving then observes it closed.
C2_CancelCloses ==
    /\ cancelled ~> (genPc = "done" /\ chClosed)
    /\ cancelled ~> (readerPc = "closed")

\* The channel was closed while a tick was waiting and a sample was buffered;
\* the reader received the sample and then saw the channel closed.
C2_Witness ==
    /\ genPc = "done"
    /\ chClosed
    /\ readerPc = "closed"
    /\ readerGot # <<>>
    /\ ticker # <<>>

\* C3 as stated: from the moment the context is cancelled the number of
\* samples ever enqueued does not grow.
C3_NoEnqueueAfterCancel ==
    [][cancelled => Len(enqueued') = Len(enqueued)]_vars

\* C3 amended: from the moment the generator has observed the cancellation
\* (it has left its loop and closed the channel) no sample is enqueued and
\* no tick is taken, whatever ticks arrive; before that, a tick received
\* before or chosen instead of the cancellation may still be enqueued.
C3_NoEnqueueAfterClose ==
    [][chClosed => /\ enqueued' = enqueued
                   /\ processed' = processed
                   /\ Len(ch') <= Len(ch)
                   /\ genPc' = "done"]_vars

\* A tick waits, the channel has room, and the generator has stopped.
C3_Witness ==
    /\ chClosed
    /\ genPc = "done"
    /\ ticker # <<>>
    /\ ch = <<>>
    /\ Len(enqueued) < now

\* C4 as stated: if the context is cancelled when the Processor returns, it
\* returns nil, in every interleaving with a sample and with the Emitter.
C4_CancelAlwaysNil ==
    [][(cancelled /\ ~ProcReturned /\ procPc' = "returned") => procResult' = NoError]_vars

\* C4 amended: the Processor returns nil when it observes the cancellation
\* at its select; a sample it received instead is still built and emitted,
\* and an error of BuildRequest or of the Emitter for it is returned even
\* though the context is cancelled.  Without such an error the Processor
\* never returns anything but nil.
C4_CancelObservedNil ==
    /\ procExit = "cancel" => (ProcReturned /\ procResult = NoError /\ cancelled)
    /\ (ProcReturned /\ raised = <<>>) => procResult = NoError

\* The Processor left through the cancellation while a sample was waiting.
C4_Witness ==
    /\ procExit = "cancel"
    /\ procPc = "returned"
    /\ ch # <<>>
    /\ received # <<>>

\* C5: when the Processor leaves because the channel is closed, it returns
\* nil, and by then it has received, in order, every sample that was ever
\* enqueued, the ones buffered at the close included, and has handed each to
\* the Emitter.
C5_ClosedDrains ==
    procExit = "closed" =>
        /\ ProcReturned
        /\ procResult = NoError
        /\ chClosed
        /\ ch = <<>>
        /\ received = enqueued
        /\ [i \in 1..Len(emitted) |-> emitted[i].ts] = enqueued
        /\ \A i \in 1..Len(emitted) : emitted[i].err = NoError

\* The channel was closed with a sample buffered, and the Processor has
\* left through the closed channel.
C5_Witness ==
    /\ procExit = "closed"
    /\ chAtClose # <<>>
    /\ Len(received) >= 2

\* C6: an error of BuildRequest or of the Emitter ends the Processor at
\* once with that same error: it is the only error raised, it is for the
\* last sample received, the Emitter was called at most once for that
\* sample, and after the return nothing more is received or emitted.
C6_ErrorIsFatal ==
    /\ [](raised # <<>> =>
             /\ ProcReturned
             /\ Len(raised) = 1
             /\ procResult = raised[1]
             /\ procResult.ts = received[Len(received)]
             /\ Cardinality({i \in 1..Len(emitted) : emitted[i].ts = procResult.ts}) <= 1
             /\ \A i \in 1..Len(emitted) : emitted[i].err # NoError => i = Len(emitted))
    /\ [][ProcReturned => UNCHANGED <<received, emitted, raised, procResult, value, built>>]_vars

\* The Emitter failed for the first sample while another sample was waiting.
C6_Witness ==
    /\ procPc = "exited"
    /\ procResult = EmitterError(value)
    /\ Len(received) = 1
    /\ ch # <<>>
    /\ Len(emitted) = 1

\* C7: the Processor returns nil only through the cancellation, with the
\* context cancelled, or through the closed channel, with the channel closed
\* and drained; it never returns nil once BuildRequest or the Emitter has
\* returned an error, and it returns an error only through those two.
C7_NilOnlyTwoPaths ==
    ProcReturned =>
        /\ procResult = NoError <=> procExit \in {"cancel", "closed"}
        /\ procResult = NoError <=> raised = <<>>
        /\ procExit = "cancel" => cancelled
        /\ procExit = "closed" => (chClosed /\ ch = <<>>)
        /\ procExit \in {"cancel", "closed", "build", "emit"}

\* The Processor has emitted a request and then left through the cancellation.
C7_Witness ==
    /\ procPc = "exited"
    /\ procResult = NoError
    /\ procExit = "cancel"
    /\ emitted # <<>>
    /\ ~chClosed

\* C8: the Emitter never gets a partial request: every request handed to it
\* was returned by BuildRequest with a nil error after all transformers of the
\* chain ran on that sample, and the Emitter is called at most once for each
\* sample received.
C8_NoPartialEmit ==
    /\ \A i \in 1..Len(emitted) :
          /\ emitted[i].buildErr = NoError
          /\ emitted[i].applied = Len(transformers)
          /\ \E v \in 0..(DefaultCeiling * ValueUnits) :
                emitted[i].req =
                    BuildRequest(transformers, [Value |-> v, Timestamp |-> emitted[i].ts], 0).req
          /\ \A s \in 1..Len(emitted[i].req.TimeSeries) :
                /\ emitted[i].req.TimeSeries[s].Resource # NoResource
                /\ Len(emitted[i].req.TimeSeries[s].Points) = 1
                /\ emitted[i].req.TimeSeries[s].Points[1].StartTime = Unix(emitted[i].ts)
    /\ \A i \in 1..Len(emitted) : \A j \in 1..Len(emitted) :
          emitted[i].ts = emitted[j].ts => i = j
    /\ \A i \in 1..Len(emitted) : \E k \in 1..Len(received) : received[k] = emitted[i].ts

\* A request was emitted, and for a later sample the first transformer of a
\* chain of three failed: that request is partial and was not emitted.
C8_Witness ==
    /\ procExit = "build"
    /\ built.err = TransformerError(1, value)
    /\ built.applied = 0
    /\ built.req = NewRequest
    /\ Len(emitted) = 1
    /\ Len(received) = 2

\* The timestamp of the first tick the generator received.
FirstTickReceived == IF processed # <<>> THEN processed[1] ELSE metric.Timestamp

\* The samples the generator has made that are still in hand or in the channel.
Samples == {ch[i] : i \in 1..Len(ch)} \cup (IF genPc = "send" THEN {metric} ELSE {})

\* C11: the time origin tZero is the timestamp of the first tick the generator
\* receives and is recorded once, never changed by a later tick; every sample
\* has the timestamp of its tick and the value of the calculator at the time
\* elapsed since tZero over the period, so the first sample has phase 0.
C11_OriginIsFirstTick ==
    /\ [](/\ firstTick => tZero = FirstTickReceived
          /\ ~firstTick => processed = <<>> /\ genPc # "send"
          /\ \A m \in Samples :
                /\ m.Timestamp >= tZero
                /\ m.Value = Calculator(m.Timestamp - tZero)
                /\ m.Timestamp = tZero => m.Value = DefaultFloor * ValueUnits
          /\ genPc = "send" => metric.Timestamp <= now)
    /\ [][firstTick => firstTick' /\ tZero' = tZero]_vars

\* The generator has handled the first tick and holds the sample of the last
\* one, whose value is that of the calculator at the time since the first
\* tick, not the value of phase 0.
C11_Witness ==
    /\ genPc = "send"
    /\ processed = <<1>>
    /\ tZero = 1
    /\ metric.Timestamp = MaxTicks
    /\ metric.Value = Calculator(MaxTicks - 1)
    /\ metric.Value # DefaultFloor * ValueUnits

\* C12: once the generator function has returned the producer never runs
\* again, never enqueues and never closes the channel a second time, whatever
\* the sequence of invocations of the generator function.
C12_StoppedForGood ==
    /\ [](closeCount <= 1)
    /\ [][genPc = "done" => genPc' = "done" /\ enqueued' = enqueued /\ closeCount' = closeCount]_vars

\* C13: the generator leaves its loop only through cancellation: the channel
\* is closed and the function has returned only if the context is cancelled,
\* the ticker channel is never closed, and with no cancellation and no tick
\* waiting the generator has no step to take.
C13_OnlyCancellationStops ==
    /\ chClosed => cancelled
    /\ genPc = "done" => cancelled /\ chClosed
    /\ genPc # "panic"
    /\ ~tickerClosed
    /\ (genPc = "select" /\ ~cancelled /\ ticker = <<>>) =>
          /\ ~ENABLED GenCancel
          /\ ~ENABLED GenTick
          /\ ~ENABLED GenSend
          /\ ~ENABLED GenStart

\* The ticker has stopped after its last tick, every tick was taken, the
\* context is not cancelled: the generator waits in its select, the channel open.
C13_Witness ==
    /\ genPc = "select"
    /\ ~cancelled
    /\ ticker = <<>>
    /\ now = MaxTicks
    /\ Len(processed) >= 2
    /\ ~chClosed
    /\ ~ENABLED GenCancel

\* ------------------------------------------------ claims on a single call
\* BuildRequest has been called and has returned.
Built == uMode = "build" /\ uCalls = 1

\* A transformer has been called on a request that is not nil and has returned.
Transformed == uMode = "transformer" /\ uCalls = 1 /\ uReq # NilRequest

\* The position of the last transformer of a family in a chain, 0 if there is none.
LastOf(chain, family) ==
    LET at == {i \in 1..Len(chain) : chain[i].family = family}
    IN IF at = {} THEN 0 ELSE CHOOSE i \in at : \A j \in at : j <= i

\* C14: BuildRequest stops at the first transformer that returns an error: it
\* returns that error with the request as the transformers before it left it,
\* and no transformer after it in the chain is applied.
C14_StopsAtFirstError ==
    (Built /\ uFailAt # 0) =>
        LET before == SubSeq(uChain, 1, uFailAt - 1)
            series == uOut.req.TimeSeries[1]
        IN /\ uOut.err = TransformerError(uFailAt, uMetric)
           /\ uOut.applied = uFailAt - 1
           /\ uOut.req = BuildRequest(before, uMetric, 0).req
           /\ LastOf(before, "resource") = 0 => series.Resource = NoResource
           /\ LastOf(before, "value") = 0 => series.Points = <<>>

\* The second transformer of a chain of three failed: the request has the
\* resource of the first and none of the points of the third.
C14_Witness ==
    /\ Built
    /\ uChain = <<GenericNode, User, DoubleValue>>
    /\ uFailAt = 2
    /\ uOut.err = TransformerError(2, uMetric)
    /\ uOut.req.TimeSeries[1].Resource = GenericMonitoredResource
    /\ uOut.req.TimeSeries[1].Points = <<>>

\* C15: the transformers of a chain run in order and the last write wins: the
\* Resource of the request returned is that of the last resource transformer
\* of the chain, its Points are the single point of the last value transformer.
C15_LastWriteWins ==
    (Built /\ uFailAt = 0) =>
        LET lastResource == LastOf(uChain, "resource")
            lastValue == LastOf(uChain, "value")
            series == uOut.req.TimeSeries[1]
        IN /\ uOut.err = NoError
           /\ uOut.applied = Len(uChain)
           /\ series.Resource =
                 IF lastResource = 0 THEN NoResource ELSE MonitoredResource(uChain[lastResource])
           /\ series.Points =
                 IF lastValue = 0 THEN <<>>
                 ELSE IF uChain[lastValue] = DoubleValue THEN <<DoublePoint(uMetric)>>
                 ELSE <<IntegerPoint(uMetric)>>

\* Two resource transformers and then a value transformer ran: the request
\* has the resource of the second one, not of the first.
C15_Witness ==
    /\ Built
    /\ uFailAt = 0
    /\ uChain = <<GenericNode, GCEInstance, DoubleValue>>
    /\ uOut.req.TimeSeries[1].Resource = GCEMonitoredResource
    /\ uOut.req.TimeSeries[1].Points[1].Kind = "double"

\* C16: the request BuildRequest returns has exactly one series, with the
\* metric type and labels of the pipeline, whatever the chain and wherever it
\* stopped; and no transformer of transformers.go changes the Metric of a
\* series or the number of series.
C16_MetricIdentityKept ==
    /\ Built =>
          /\ uOut.req.Name = <<"projects/", ProjectID>>
          /\ Len(uOut.req.TimeSeries) = 1
          /\ uOut.req.TimeSeries[1].Metric = [Type |-> DefaultMetricType, Labels |-> {}]
          /\ uOut.req.TimeSeries[1].MetricKind = "GAUGE"
    /\ (Transformed /\ uT \in BuiltIn) =>
          /\ Len(uOut.req.TimeSeries) = Len(uReq.TimeSeries)
          /\ \A i \in 1..Len(uReq.TimeSeries) :
                /\ uOut.req.TimeSeries[i].Metric = uReq.TimeSeries[i].Metric
                /\ uOut.req.TimeSeries[i].MetricKind = uReq.TimeSeries[i].MetricKind

\* A chain of MaxChain transformers ran to its end: the one series has its
\* Resource and its Points set, its Metric as allocated.
C16_Witness ==
    /\ Built
    /\ Len(uChain) = MaxChain
    /\ uOut.applied = MaxChain
    /\ uOut.req.TimeSeries[1].Resource # NoResource
    /\ uOut.req.TimeSeries[1].Points # <<>>
    /\ uOut.req.TimeSeries[1].Metric.Type = DefaultMetricType

\* C17: each of the nine transformers, given a nil request, returns
\* ErrNilCreateTimeSeriesRequest and nothing else happens: the request is not
\* dereferenced and is still nil.
C17_NilRequestRejected ==
    (uMode = "transformer" /\ uCalls = 1 /\ uReq = NilRequest /\ uT \in BuiltIn) =>
        /\ uOut.err = ErrNilCreateTimeSeriesRequest
        /\ uOut.err # NilDereference
        /\ uOut.req = NilRequest
        /\ uOut.applied = 0

\* A resource transformer was called with nil and returned the error.
C17_Witness ==
    /\ uMode = "transformer"
    /\ uCalls = 1
    /\ uReq = NilRequest
    /\ uT = K8sPod
    /\ uOut.err = ErrNilCreateTimeSeriesRequest

\* C18: each of the nine transformers, given a request that is not nil and has
\* no series, returns nil and leaves the request as it was, its Name and its
\* series list included.
C18_NoSeriesUntouched ==
    (Transformed /\ uReq.TimeSeries = <<>> /\ uT \in BuiltIn) =>
        /\ uOut.err = NoError
        /\ uOut.req = uReq
        /\ uOut.req.Name = uReq.Name
        /\ uOut.req.TimeSeries = <<>>

\* A value transformer was called on a request with no series.
C18_Witness ==
    /\ Transformed
    /\ uReq.TimeSeries = <<>>
    /\ uT = DoubleValue
    /\ uOut.err = NoError
    /\ uOut.req.TimeSeries = <<>>

\* C19: a resource transformer sets the Resource of every series to the
\* resource it was built with, whatever the sample, and leaves the Name, the
\* number and order of the series, and the Metric and Points of each series as
\* they were.
C19_ResourceOnEverySeries ==
    (Transformed /\ uT.family = "resource") =>
        /\ uOut.err = NoError
        /\ uOut.req.Name = uReq.Name
        /\ Len(uOut.req.TimeSeries) = Len(uReq.TimeSeries)
        /\ \A i \in 1..Len(uReq.TimeSeries) :
              /\ uOut.req.TimeSeries[i].Resource = MonitoredResource(uT)
              /\ uOut.req.TimeSeries[i].Resource.Type = uT.type
              /\ uOut.req.TimeSeries[i].Metric = uReq.TimeSeries[i].Metric
              /\ uOut.req.TimeSeries[i].MetricKind = uReq.TimeSeries[i].MetricKind
              /\ uOut.req.TimeSeries[i].Points = uReq.TimeSeries[i].Points
        /\ \A m \in UnitMetrics : Transformer(uT, 1, uReq, m, FALSE).req = uOut.req

\* Two series, the first with a Resource and Points, the second with neither:
\* both have the resource of the transformer, the first its old points.
C19_Witness ==
    /\ Transformed
    /\ uT = GKEContainer
    /\ Len(uReq.TimeSeries) = 2
    /\ uReq.TimeSeries[1].Resource = OldResource
    /\ uReq.TimeSeries[1].Points = OldPoints
    /\ uReq.TimeSeries[2].Resource = NoResource
    /\ uOut.req.TimeSeries[1].Resource = GKEMonitoredResource
    /\ uOut.req.TimeSeries[2].Resource = GKEMonitoredResource
    /\ uOut.req.TimeSeries[1].Points = OldPoints

\* What a value transformer does but for the interval of the point: one point
\* on every series, of the kind of the transformer, with the value of the
\* sample (the nearest integer, halves away from zero, for the integer
\* transformer), the Name, Metric and Resource as they were.
ValueOnEverySeries ==
    /\ uOut.err = NoError
    /\ uOut.req.Name = uReq.Name
    /\ Len(uOut.req.TimeSeries) = Len(uReq.TimeSeries)
    /\ \A i \in 1..Len(uReq.TimeSeries) :
          LET point == uOut.req.TimeSeries[i].Points[1]
          IN /\ Len(uOut.req.TimeSeries[i].Points) = 1
             /\ uOut.req.TimeSeries[i].Metric = uReq.TimeSeries[i].Metric
             /\ uOut.req.TimeSeries[i].MetricKind = uReq.TimeSeries[i].MetricKind
             /\ uOut.req.TimeSeries[i].Resource = uReq.TimeSeries[i].Resource
             /\ uT = DoubleValue => point.Kind = "double" /\ point.Value = uMetric.Value
             /\ uT = IntegerValue =>
                   /\ point.Kind = "int64"
                   /\ 2 * Abs(point.Value * ValueUnits - uMetric.Value) <= ValueUnits
                   /\ 2 * Abs(point.Value * ValueUnits - uMetric.Value) = ValueUnits =>
                         Abs(point.Value * ValueUnits) > Abs(uMetric.Value)

\* C20 as stated: a value transformer leaves one point on every series whose
\* interval starts and ends at the timestamp of the sample.
C20_IntervalIsTimestamp ==
    (Transformed /\ uT.family = "value") =>
        /\ ValueOnEverySeries
        /\ \A i \in 1..Len(uReq.TimeSeries) :
              /\ uOut.req.TimeSeries[i].Points[1].StartTime * UnitsPerSecond = uMetric.Timestamp
              /\ uOut.req.TimeSeries[i].Points[1].EndTime * UnitsPerSecond = uMetric.Timestamp

\* C20: a value transformer replaces the points of every series by one point
\* whose interval starts and ends at the whole second of the timestamp of the
\* sample (the part of the timestamp below the second is dropped) and whose
\* value is that of the sample, and leaves Name, Metric and Resource alone.
C20_IntervalIsWholeSecond ==
    (Transformed /\ uT.family = "value") =>
        /\ ValueOnEverySeries
        /\ \A i \in 1..Len(uReq.TimeSeries) :
              LET point == uOut.req.TimeSeries[i].Points[1]
              IN /\ point.StartTime = point.EndTime
                 /\ point.StartTime * UnitsPerSecond <= uMetric.Timestamp
                 /\ uMetric.Timestamp < (point.StartTime + 1) * UnitsPerSecond

\* The integer transformer was called with a sample between two seconds and
\* between two integers, on two series of which the first had points: each has
\* one point, at the second before the timestamp, with the rounded value.
C20_Witness ==
    /\ Transformed
    /\ uT = IntegerValue
    /\ uMetric.Timestamp = UnitsPerSecond + 1
    /\ uMetric.Value = 2 * ValueUnits + 1
    /\ Len(uReq.TimeSeries) = 2
    /\ uReq.TimeSeries[1].Points = OldPoints
    /\ uOut.req.TimeSeries[1].Points[1].StartTime = 1
    /\ uOut.req.TimeSeries[1].Points[1].Value * ValueUnits # uMetric.Value
    /\ Len(uOut.req.TimeSeries[2].Points) = 1

\* C21: a transformer called twice on a request with the same sample leaves
\* what one call leaves: the same error, the same request, with the resource
\* of a resource transformer and the single point of a value transformer.
C21_Idempotent ==
    (uMode = "transformer" /\ uCalls = 2 /\ uT \in BuiltIn) =>
        LET once == Transformer(uT, 1, uReq, uMetric, FALSE)
        IN /\ uOut.req = once.req
           /\ uOut.err = once.err
           /\ uReq # NilRequest =>
                 \A i \in 1..Len(uOut.req.TimeSeries) :
                    /\ uT.family = "resource" =>
                          /\ uOut.req.TimeSeries[i].Resource = MonitoredResource(uT)
                          /\ uOut.req.TimeSeries[i].Points = uReq.TimeSeries[i].Points
                    /\ uT.family = "value" =>
                          /\ Len(uOut.req.TimeSeries[i].Points) = 1
                          /\ uOut.req.TimeSeries[i].Resource = uReq.TimeSeries[i].Resource

\* The double transformer was called twice on two series, of which the first
\* had two points: each series has one point, the point of the sample.
C21_Witness ==
    /\ uMode = "transformer"
    /\ uCalls = 2
    /\ uT = DoubleValue
    /\ uReq # NilRequest
    /\ Len(uReq.TimeSeries) = 2
    /\ uReq.TimeSeries[1].Points = OldPoints
    /\ uOut.req.TimeSeries[1].Points = <<DoublePoint(uMetric)>>
    /\ uOut.req.TimeSeries[2].Points = <<DoublePoint(uMetric)>>

\* ------------------------------------------------- claims on NewPipeline
\* NewPipeline has been called; it has returned a Pipeline; BuildRequest has
\* been called on that Pipeline.
PipeCalled == uMode = "pipeline" /\ uCalls >= 1
PipeMade == PipeCalled /\ uPipe.err = NoError
PipeBuilt == uMode = "pipeline" /\ uCalls = 2

\* The transformers the options give, in the order of the options.
RECURSIVE GivenTransformers(_)
GivenTransformers(options) ==
    IF options = <<>> THEN <<>>
    ELSE (IF Head(options).opt = "WithTransformers" THEN Head(options).arg ELSE <<>>)
         \o GivenTransformers(Tail(options))

\* The project identifier the options give, "" if they give none.
GivenProjectID(options) ==
    LET at == {i \in 1..Len(options) : options[i].opt = "WithProjectID"}
    IN IF at = {} THEN "" ELSE options[CHOOSE i \in at : \A j \in at : j <= i].arg

\* Whether the options suppress the default transformers.
Suppressed(options) ==
    \E i \in 1..Len(options) : options[i].opt = "WithoutDefaultTransformers"

\* The kind of resource of the environment.
EnvironmentKind(env) ==
    IF ~env.onGCE THEN "generic_node"
    ELSE IF env.kubernetes THEN "gke_container"
    ELSE "gce_instance"

\* C22: the chain of the Pipeline ends with the transformers given by
\* WithTransformers, in the order given, after the defaults, wherever
\* WithTransformers stands among the options; so a resource or value
\* transformer given by the caller decides the Resource or the Points of every
\* request built.
C22_GivenAfterDefaults ==
    /\ PipeMade =>
          LET chain == uPipe.pipeline.transformers
              given == GivenTransformers(uOptions)
              defaults == Len(chain) - Len(given)
          IN /\ defaults = IF Suppressed(uOptions) THEN 0 ELSE 2
             /\ SubSeq(chain, defaults + 1, Len(chain)) = given
             /\ \A i \in 1..defaults : "labels" \in DOMAIN chain[i] \/ chain[i] = DoubleValue
    /\ PipeBuilt =>
          LET given == GivenTransformers(uOptions)
              series == uOut.req.TimeSeries[1]
          IN /\ uOut.err = NoError
             /\ LastOf(given, "resource") # 0 => series.Resource = K8sNodeMonitoredResource
             /\ LastOf(given, "value") # 0 => series.Points = <<IntegerPoint(uMetric)>>

\* WithTransformers stood first and last among the options, on Compute
\* Engine: the request has the resource and the integer point of the caller,
\* not the gce_instance resource and the double point of the defaults.
C22_Witness ==
    /\ PipeBuilt
    /\ uOptions = <<WithTransformers(<<K8sNode>>), WithWriterEmitter,
                    WithTransformers(<<IntegerValue>>)>>
    /\ uEnv.onGCE
    /\ ~uEnv.kubernetes
    /\ uPipe.pipeline.transformers[1].type = "gce_instance"
    /\ uPipe.pipeline.transformers[2] = DoubleValue
    /\ uOut.req.TimeSeries[1].Resource = K8sNodeMonitoredResource
    /\ uOut.req.TimeSeries[1].Points[1].Kind = "int64"

\* What C23 says of the error and of the project identifier: errNotGCP is
\* returned exactly when the options give no project identifier and onGCE() is
\* false; with a project identifier given the metadata client is not asked
\* for one, and the identifier given is that of the Pipeline, of the Name of
\* every request and of the project_id label of the default resource.
ProjectIDResolved ==
    /\ PipeCalled =>
          /\ uPipe.err = errNotGCP <=> (GivenProjectID(uOptions) = "" /\ ~uEnv.onGCE)
          /\ GivenProjectID(uOptions) # "" =>
                /\ "ProjectID" \notin uPipe.asked
                /\ uPipe.err # MetadataError("ProjectID")
                /\ ~uEnv.onGCE => uPipe.asked = {}
    /\ (PipeMade /\ GivenProjectID(uOptions) # "") =>
          /\ uPipe.pipeline.projectID = GivenProjectID(uOptions)
          /\ ~Suppressed(uOptions) =>
                <<"project_id", GivenProjectID(uOptions)>> \in uPipe.pipeline.transformers[1].labels
    /\ (PipeBuilt /\ GivenProjectID(uOptions) # "") =>
          /\ uOut.req.Name = <<"projects/", GivenProjectID(uOptions)>>
          /\ GivenTransformers(uOptions) = <<>> /\ ~Suppressed(uOptions) =>
                <<"project_id", GivenProjectID(uOptions)>> \in uOut.req.TimeSeries[1].Resource.Labels

DefaultPointKind ==
    (PipeBuilt /\ ~Suppressed(uOptions)) =>
        LET given == GivenTransformers(uOptions)
            series == uOut.req.TimeSeries[1]
        IN /\ Len(series.Points) = 1
           /\ LastOf(given, "value") # 0 =>
                 /\ series.Points[1].Kind = "int64"
                 /\ series.Points[1].Value = Round(uMetric.Value)
           /\ LastOf(given, "value") = 0 =>
                 /\ series.Points[1].Kind = "double"
                 /\ series.Points[1].Value = uMetric.Value

\* C24 as stated: with the defaults and no transformer given but the integer
\* one, the chain has one resource transformer and then one value
\* transformer, the integer one in integer mode and the double one otherwise.
C24_OneValueTransformer ==
    /\ DefaultPointKind
    /\ (PipeMade /\ ~Suppressed(uOptions)
          /\ \A i \in 1..Len(GivenTransformers(uOptions)) :
                GivenTransformers(uOptions)[i] = IntegerValue) =>
          LET chain == uPipe.pipeline.transformers
          IN /\ chain[1].family = "resource"
             /\ chain[1].type = EnvironmentKind(uEnv)
             /\ Cardinality({i \in 1..Len(chain) : chain[i].family = "resource"}) = 1
             /\ Cardinality({i \in 1..Len(chain) : chain[i].family = "value"}) = 1
             /\ chain[2] = IF GivenTransformers(uOptions) = <<>> THEN DoubleValue
                           ELSE IntegerValue

\* C24: with the defaults, the chain starts with one resource transformer, of
\* the kind of the environment, and the double transformer, whatever the
\* options; integer mode is the integer transformer given by WithTransformers,
\* which comes after them, so that the chain then has two value transformers
\* and every request built has the integer point of the last.
C24_DoubleThenGiven ==
    /\ DefaultPointKind
    /\ (PipeMade /\ ~Suppressed(uOptions)) =>
          LET chain == uPipe.pipeline.transformers
              given == GivenTransformers(uOptions)
          IN /\ Len(chain) = 2 + Len(given)
             /\ chain[1].family = "resource"
             /\ chain[1].type = EnvironmentKind(uEnv)
             /\ chain[2] = DoubleValue
             /\ \A i \in 1..Len(given) : chain[2 + i] = given[i]
             /\ Cardinality({i \in 1..Len(chain) : chain[i].family = "value"}) =
                   1 + Cardinality({i \in 1..Len(given) : given[i].family = "value"})

\* Integer mode as cmd/gce-metric asks for it, on Compute Engine: the chain
\* is the gce_instance transformer, the double transformer and the integer
\* transformer, and the request has one integer point.
C24_Witness ==
    /\ PipeBuilt
    /\ uOptions = <<WithTransformers(<<IntegerValue>>)>>
    /\ uEnv.onGCE
    /\ ~uEnv.kubernetes
    /\ Len(uPipe.pipeline.transformers) = 3
    /\ uPipe.pipeline.transformers[2] = DoubleValue
    /\ uPipe.pipeline.transformers[3] = IntegerValue
    /\ uOut.req.TimeSeries[1].Points = <<IntegerPoint(uMetric)>>

\* C25: the resource transformer of the defaults is generic_node, with the
\* location global, the fixed namespace and a new UUID, when onGCE() is false;
\* gke_container when onGCE() is true and KUBERNETES_SERVICE_HOST is set;
\* gce_instance when onGCE() is true otherwise; its labels have the
\* identifiers the metadata client returned, as returned.
C25_ResourceOfEnvironment ==
    (PipeMade /\ ~Suppressed(uOptions)) =>
        LET t == uPipe.pipeline.transformers[1]
            projectID == uPipe.pipeline.projectID
        IN /\ t.family = "resource"
           /\ projectID = IF GivenProjectID(uOptions) # "" THEN GivenProjectID(uOptions)
                          ELSE MetadataProjectID
           /\ ~uEnv.onGCE =>
                 /\ t.type = "generic_node"
                 /\ t.labels = {<<"project_id", projectID>>, <<"location", "global">>,
                                <<"namespace", "github.com/memes/gce-metric">>,
                                <<"node_id", NewUUID>>}
                 /\ uPipe.asked = {}
           /\ (uEnv.onGCE /\ uEnv.kubernetes) =>
                 /\ t.type = "gke_container"
                 /\ t.labels = {<<"project_id", projectID>>,
                                <<"cluster_name", MetadataClusterName>>,
                                <<"namespace_id", EnvNamespace>>,
                                <<"instance_id", MetadataInstanceID>>,
                                <<"pod_id", EnvHostname>>,
                                <<"container_name", EnvContainerName>>,
                                <<"zone", MetadataZone>>}
                 /\ {"InstanceID", "Zone", "cluster_name"} \subseteq uPipe.asked
           /\ (uEnv.onGCE /\ ~uEnv.kubernetes) =>
                 /\ t.type = "gce_instance"
                 /\ t.labels = {<<"project_id", projectID>>,
                                <<"instance_id", MetadataInstanceID>>,
                                <<"zone", MetadataZone>>}
                 /\ "cluster_name" \notin uPipe.asked
           /\ (PipeBuilt /\ GivenTransformers(uOptions) = <<>>) =>
                 uOut.req.TimeSeries[1].Resource = [Type |-> t.type, Labels |-> t.labels]

\* On Google Cloud with KUBERNETES_SERVICE_HOST set and no option: the request
\* has a gke_container resource with the project, cluster, instance and zone
\* of the metadata client.
C25_Witness ==
    /\ PipeBuilt
    /\ uOptions = <<>>
    /\ uEnv.onGCE
    /\ uEnv.kubernetes
    /\ uPipe.asked = {"ProjectID", "InstanceID", "Zone", "cluster_name"}
    /\ uOut.req.TimeSeries[1].Resource.Type = "gke_container"
    /\ <<"project_id", MetadataProjectID>> \in uOut.req.TimeSeries[1].Resource.Labels
    /\ <<"cluster_name", MetadataClusterName>> \in uOut.req.TimeSeries[1].Resource.Labels

\* What C26 says of the value: the integer transformer leaves on every series
\* one int64 point whose value is the integer nearest to the value of the
\* sample, the one further from zero when two are as near: 6 for 5.5 and -6
\* for -5.5.
RoundedHalfAwayFromZero ==
    (Transformed /\ uCalls = 1 /\ uT = IntegerValue) =>
        \A i \in 1..Len(uReq.TimeSeries) :
            LET point == uOut.req.TimeSeries[i].Points[1]
            IN /\ Len(uOut.req.TimeSeries[i].Points) = 1
               /\ point.Kind = "int64"
               /\ 2 * Abs(point.Value * ValueUnits - uMetric.Value) <= ValueUnits
               /\ 2 * Abs(point.Value * ValueUnits - uMetric.Value) = ValueUnits =>
                     Abs(point.Value * ValueUnits) > Abs(uMetric.Value)
               /\ 2 * uMetric.Value = 11 * ValueUnits => point.Value = 6
               /\ 2 * uMetric.Value = -11 * ValueUnits => point.Value = -6
               /\ 2 * uMetric.Value = ValueUnits => point.Value = 1
               /\ uMetric.Value = 0 => point.Value = 0

\* C26 as stated: the value is rounded half away from zero, and the interval
\* of the point starts and ends at the timestamp T of the sample.
C26_RoundedAtTimestamp ==
    /\ RoundedHalfAwayFromZero
    /\ (Transformed /\ uCalls = 1 /\ uT = IntegerValue) =>
          \A i \in 1..Len(uReq.TimeSeries) :
              /\ uOut.req.TimeSeries[i].Points[1].StartTime * UnitsPerSecond = uMetric.Timestamp
              /\ uOut.req.TimeSeries[i].Points[1].EndTime * UnitsPerSecond = uMetric.Timestamp

\* C26: the value is rounded half away from zero, and the interval of the
\* point starts and ends at the whole second of T, the last one not after T.
C26_RoundedAtWholeSecond ==
    /\ RoundedHalfAwayFromZero
    /\ (Transformed /\ uCalls = 1 /\ uT = IntegerValue) =>
          \A i \in 1..Len(uReq.TimeSeries) :
              LET point == uOut.req.TimeSeries[i].Points[1]
              IN /\ point.EndTime = point.StartTime
                 /\ point.StartTime = uMetric.Timestamp \div UnitsPerSecond
                 /\ uMetric.Timestamp % UnitsPerSecond = 0 =>
                       point.StartTime * UnitsPerSecond = uMetric.Timestamp

\* The integer transformer was called with the value 5.5 at a timestamp
\* between two seconds: the point has the value 6 at the second before.
C26_Witness ==
    /\ Transformed
    /\ uCalls = 1
    /\ uT = IntegerValue
    /\ 2 * uMetric.Value = 11 * ValueUnits
    /\ uMetric.Timestamp = UnitsPerSecond + 1
    /\ Len(uReq.TimeSeries) = 1
    /\ uOut.req.TimeSeries[1].Points[1].Value = 6
    /\ uOut.req.TimeSeries[1].Points[1].StartTime = 1
    /\ uOut.req.TimeSeries[1].Points[1].EndTime = 1

\* ------------------------------------------------ claims on a calculator
\* The calculator has been called at its phase; it has been called at the
\* phase one cycle later too.
Calculated == uMode = "calculator" /\ uCalls >= 1
CalculatedNext == uMode = "calculator" /\ uCalls = 2

\* C27: the range calculator between a and b returns the smaller of a and b
\* plus |a - b| times the unit calculator of its kind, which is between 0 and
\* 1: a value between the smaller and the larger of a and b, the same with a
\* and b swapped; Sawtooth between 10 and 20 gives 15 at phase 0.5 and 10 at
\* phase 1.0.
C27_WithinRange ==
    Calculated =>
        LET lo == IF uCalc.a <= uCalc.b THEN uCalc.a ELSE uCalc.b
            hi == IF uCalc.a <= uCalc.b THEN uCalc.b ELSE uCalc.a
        IN /\ 0 <= uOut.unit /\ uOut.unit <= uCalc.den
           /\ lo <= uOut.value /\ uOut.value <= hi
           /\ uCalc.den * (uOut.value - lo) <= (hi - lo) * uOut.unit
           /\ (hi - lo) * uOut.unit < uCalc.den * (uOut.value - lo + 1)
           /\ uOut.value = NewPeriodicRangeCalculator(uCalc.b, uCalc.a, uCalc.kind,
                                                      uCalc.num, uCalc.den)
           /\ (uCalc.kind = "sawtooth" /\ lo = 10 * ValueUnits /\ hi = 20 * ValueUnits) =>
                 /\ 2 * uCalc.num = uCalc.den => uOut.value = 15 * ValueUnits
                 /\ uCalc.num = uCalc.den => uOut.value = 10 * ValueUnits

\* Sawtooth between 20 and 10, in that order, at phase 0.5: 15.
C27_Witness ==
    /\ Calculated
    /\ uCalc.kind = "sawtooth"
    /\ uCalc.a = 20 * ValueUnits
    /\ uCalc.b = 10 * ValueUnits
    /\ 2 * uCalc.num = uCalc.den
    /\ uOut.value = 15 * ValueUnits

SawtoothQuarters == <<0, 1, 2, 3, 0, 1, 2, 3, 0>>
SineQuarters == <<0, 2, 4, 2, 0, 2, 4, 2, 0>>
TriangleQuarters == <<0, 2, 4, 2, 0, 2, 4, 2, 0>>
SquareQuarters == <<0, 0, 0, 4, 4, 0, 0, 4, 4>>

\* C29: at the phases 0, 0.25, 0.5, 0.75, 1.0, and 1.25 to 2.0, Sawtooth
\* returns 0, 0.25, 0.5, 0.75, 0, Sine and Triangle return 0, 0.5, 1, 0.5, 0.
C29_QuarterPhases ==
    (Calculated /\ uCalc.den = 4 /\ uCalc.num \in 0..8) =>
        /\ uCalc.kind = "sawtooth" => uOut.unit = SawtoothQuarters[uCalc.num + 1]
        /\ uCalc.kind = "sine" => uOut.unit = SineQuarters[uCalc.num + 1]
        /\ uCalc.kind = "triangle" => uOut.unit = TriangleQuarters[uCalc.num + 1]

\* Triangle at the phase 1.75: one half.
C29_Witness ==
    /\ Calculated
    /\ uCalc.kind = "triangle"
    /\ uCalc.den = 4
    /\ uCalc.num = 7
    /\ uOut.unit = 2

\* C30: Square returns 0 at the phases 0, 0.25 and 0.5 and 1 at 0.75 and 1.0,
\* then 0 at 1.25 and 1.5 and 1 at 1.75 and 2.0.
C30_SquareQuarterPhases ==
    (Calculated /\ uCalc.kind = "square" /\ uCalc.den = 4 /\ uCalc.num \in 0..8) =>
        uOut.unit = SquareQuarters[uCalc.num + 1]

\* Square at the phase 1.0: 1, where it is 0 at the phase 0.
C30_Witness ==
    /\ Calculated
    /\ uCalc.kind = "square"
    /\ uCalc.den = 4
    /\ uCalc.num = 4
    /\ uOut.unit = 4
    /\ ValueCalculator("square", 0, 4) = 0

\* C31 as stated: Square is 0 on the first half of each cycle and 1 on the
\* second half, 1 at a phase of exactly 0.5 and 0 at a phase of exactly 0.
C31_HalfIsOne ==
    (Calculated /\ uCalc.kind = "square") =>
        /\ (2 * uCalc.num) % (2 * uCalc.den) < uCalc.den => uOut.unit = 0
        /\ (2 * uCalc.num) % (2 * uCalc.den) > uCalc.den => uOut.unit = uCalc.den
        /\ 2 * uCalc.num = uCalc.den => uOut.unit = uCalc.den
        /\ uCalc.num = 0 => uOut.unit = 0

\* C31: Square is 0 strictly inside the first half of each cycle and 1
\* strictly inside the second half; a phase of exactly 0 maps to 0 and a
\* phase of exactly 0.5 maps to 0 as well, while a phase of exactly 1.0 maps
\* to 1.
C31_HalfIsZero ==
    (Calculated /\ uCalc.kind = "square") =>
        /\ (0 < (2 * uCalc.num) % (2 * uCalc.den) /\ (2 * uCalc.num) % (2 * uCalc.den) < uCalc.den) =>
              uOut.unit = 0
        /\ (2 * uCalc.num) % (2 * uCalc.den) > uCalc.den => uOut.unit = uCalc.den
        /\ 2 * uCalc.num = uCalc.den => uOut.unit = 0
        /\ uCalc.num = 0 => uOut.unit = 0
        /\ uCalc.num = uCalc.den => uOut.unit = uCalc.den

\* Square at the phase 0.5: 0.
C31_Witness ==
    /\ Calculated
    /\ uCalc.kind = "square"
    /\ 2 * uCalc.num = uCalc.den
    /\ uOut.unit = 0

\* The four names of the periodic types.
FourNames == {"sawtooth", "sine", "square", "triangle"}

\* A name has been parsed.
Parsed == uMode = "calculator" /\ uParse # NotParsed

\* C32: ParsePeriodicType returns the periodic type of the name and no error
\* for the four names sawtooth, sine, square and triangle, spelled so, and
\* Invalid with an error that wraps ErrInvalidPeriodicType for every other
\* string; the calculator of Invalid, and of a kind outside the four, returns
\* 0 at every phase.
C32_ParseFourNames ==
    /\ Parsed =>
          /\ uParse.name \in FourNames =>
                /\ uParse.result.kind = uParse.name
                /\ uParse.result.err = NilParseError
          /\ uParse.name \notin FourNames =>
                /\ uParse.result.kind = "invalid"
                /\ uParse.result.err # NilParseError
                /\ uParse.result.err.wraps = ErrInvalidPeriodicType
          /\ uCalc.kind = uParse.result.kind
    /\ (Calculated /\ uCalc.kind \notin FourNames) => uOut.unit = 0
    /\ (CalculatedNext /\ uCalc.kind \notin FourNames) => uOut.unitNext = 0

\* "Sawtooth" with a capital letter is parsed to Invalid, whose calculator
\* returns 0 at the phase 0.25.
C32_Witness ==
    /\ Parsed
    /\ Calculated
    /\ uParse.name = "Sawtooth"
    /\ uParse.result.kind = "invalid"
    /\ uParse.result.err # NilParseError
    /\ uCalc.num = 1
    /\ uOut.unit = 0

\* Close has been called on the Pipeline NewPipeline returned.
PipeClosed == uMode = "pipeline" /\ uPipe.err = NoError /\ uClose # <<>>

\* C33 as stated: every call of Close returns nil, before BuildRequest or
\* after it, and BuildRequest returns its request all the same.
C33_CloseReturnsNil ==
    PipeClosed =>
        /\ \A i \in 1..Len(uClose) : uClose[i] = NoError
        /\ uCalls = 2 => uOut = PipelineBuildRequest(uPipe.pipeline, uMetric)

\* C34 as stated: every request built by a Pipeline that NewPipeline made has
\* at least one series, and every series has a metric type, a resource and
\* exactly one point, of the sample.
C34_EverySeriesComplete ==
    PipeBuilt =>
        /\ uOut.err = NoError
        /\ Len(uOut.req.TimeSeries) >= 1
        /\ \A i \in 1..Len(uOut.req.TimeSeries) :
              LET series == uOut.req.TimeSeries[i]
              IN /\ series.Metric.Type = uPipe.pipeline.metricType
                 /\ series.Resource # NoResource
                 /\ Len(series.Points) = 1
                 /\ series.Points \in {<<DoublePoint(uMetric)>>, <<IntegerPoint(uMetric)>>}

\* C34: every request built by a Pipeline that NewPipeline made has one
\* series, with the metric type of the Pipeline; with the default
\* transformers the series has a resource and exactly one point, of the
\* sample; with WithoutDefaultTransformers it has a resource only if a
\* resource transformer was given and a point only if a value transformer
\* was given.
C34_CompleteUnlessSuppressed ==
    PipeBuilt =>
        /\ uOut.err = NoError
        /\ Len(uOut.req.TimeSeries) = 1
        /\ \A i \in 1..Len(uOut.req.TimeSeries) :
              LET series == uOut.req.TimeSeries[i]
                  given == GivenTransformers(uOptions)
              IN /\ series.Metric.Type = uPipe.pipeline.metricType
                 /\ series.MetricKind = "GAUGE"
                 /\ ~Suppressed(uOptions) =>
                       /\ series.Resource # NoResource
                       /\ series.Points \in {<<DoublePoint(uMetric)>>, <<IntegerPoint(uMetric)>>}
                 /\ Suppressed(uOptions) =>
                       /\ series.Resource # NoResource <=> LastOf(given, "resource") # 0
                       /\ series.Points = IF LastOf(given, "value") # 0
                                          THEN <<IntegerPoint(uMetric)>>
                                          ELSE <<>>

\* WithoutDefaultTransformers and no transformer given: the request built has
\* one series, with no resource and no point.
C34_Witness ==
    /\ PipeBuilt
    /\ uOptions = <<WithProjectID("explicit-project"), WithoutDefaultTransformers>>
    /\ uOut.err = NoError
    /\ Len(uOut.req.TimeSeries) = 1
    /\ uOut.req.TimeSeries[1].Resource = NoResource
    /\ uOut.req.TimeSeries[1].Points = <<>>

\* BuildRequest has been called twice; the caller has written to a request.
PipeBuiltAgain == uMode = "pipeline" /\ uCalls = 3
PipeMutated == uMode = "pipeline" /\ uShare.mutated # 0

\* The objects a request points to.
ObjectsOf(refs) == {refs[part] : part \in RequestParts} \ {NilRef}

LastArg(options, opt, none) ==
    LET at == {i \in 1..Len(options) : options[i].opt = opt}
    IN IF at = {} THEN none ELSE options[CHOOSE i \in at : \A j \in at : j <= i].arg

\* What C36 says of the project identifier, of the metric type and of the
\* emitter: they are those of the last option of their kind, the project
\* identifier of the metadata client, the default metric type and the default
\* emitter where there is none.
LastScalarOptionWins ==
    PipeMade =>
        /\ uPipe.pipeline.projectID =
              IF LastArg(uOptions, "WithProjectID", "") = "" THEN MetadataProjectID
              ELSE LastArg(uOptions, "WithProjectID", "")
        /\ uPipe.pipeline.metricType = LastArg(uOptions, "WithMetricType", DefaultMetricType)
        /\ uPipe.pipeline.emitter =
              IF \E i \in 1..Len(uOptions) : uOptions[i].opt = "WithWriterEmitter"
              THEN "writer" ELSE "default"
        /\ PipeBuilt =>
              /\ uOut.req.Name = <<"projects/", uPipe.pipeline.projectID>>
              /\ uOut.req.TimeSeries[1].Metric.Type = uPipe.pipeline.metricType

\* The chain without the default transformers at its head.
GivenPart(chain, options) == SubSeq(chain, IF Suppressed(options) THEN 1 ELSE 3, Len(chain))

\* C36 as stated: the project identifier, the metric type, the emitter and
\* the transformers of the Pipeline are those of the last option of their
\* kind.
C36_LastOptionWins ==
    /\ LastScalarOptionWins
    /\ PipeMade =>
          GivenPart(uPipe.pipeline.transformers, uOptions) =
             LastArg(uOptions, "WithTransformers", <<>>)

\* C36: the project identifier, the metric type and the emitter of the
\* Pipeline are those of the last option of their kind; the transformers of
\* all the WithTransformers options are kept, in the order of the options.
C36_LastWinsTransformersAdd ==
    /\ LastScalarOptionWins
    /\ PipeMade =>
          GivenPart(uPipe.pipeline.transformers, uOptions) = GivenTransformers(uOptions)

\* Two project identifiers, then a metric type: the request has the second
\* project identifier in its Name, and the metric type.
C36_Witness ==
    /\ PipeBuilt
    /\ uOptions = <<WithProjectID("explicit-project"), WithProjectID("other-project"),
                    WithMetricType("custom.googleapis.com/second")>>
    /\ uPipe.pipeline.projectID = "other-project"
    /\ uOut.req.Name = <<"projects/", "other-project">>
    /\ uOut.req.TimeSeries[1].Metric.Type = "custom.googleapis.com/second"

\* generatorMain has returned.
MainReturned == main.pc \in {"returned", "exited"}

\* The producer has closed its channel and stopped; the goroutine of the
\* Processor has ended.
ProducerStopped == genPc = "done" /\ chClosed
ProcessorEnded == procPc = "exited"

\* C37 as stated: an error of the Processor cancels the context; once the
\* context is cancelled, by that or by an interrupt, the producer closes its
\* channel and stops, generatorMain returns and pipe.Close() is called exactly
\* once; no goroutine is left running when generatorMain has returned.
C37_ShutdownLeavesNothingRunning ==
    /\ [](ProcessorEnded /\ procResult # NoError => cancelled)
    /\ (cancelled ~> ProducerStopped)
    /\ (cancelled ~> MainReturned)
    /\ [](MainReturned => main.closes = 1)
    /\ [](MainReturned => ProducerStopped /\ ProcessorEnded)

\* C37: an error of the Processor cancels the context; once the context is
\* cancelled, by that or by an interrupt, generatorMain returns, without
\* waiting for the goroutines, and the process exits; pipe.Close() is called
\* exactly once, as generatorMain returns, and not before.
C37_ShutdownWithoutWaiting ==
    /\ [](ProcessorEnded /\ procResult # NoError => cancelled)
    /\ ((procPc = "returned" /\ procResult # NoError) ~> cancelled)
    /\ (cancelled ~> main.pc = "exited")
    /\ [](MainReturned => main.closes = 1 /\ cancelled)
    /\ [](~MainReturned => main.closes = 0)

\* generatorMain has returned after an error of the Processor, pipe.Close()
\* has been called, and the producer still waits in its select with its
\* channel open.
C37_Witness ==
    /\ main.pc = "returned"
    /\ main.closes = 1
    /\ procResult # NoError
    /\ ProcessorEnded
    /\ genPc = "select"
    /\ ~chClosed

\* C38: with WithoutDefaultTransformers among the options, wherever it
\* stands, the chain is the transformers given by the WithTransformers
\* options, in the order given; the metadata client is asked for no instance
\* identifier, zone or cluster name; and with no transformer given
\* BuildRequest returns the request it allocated, one series with the metric
\* type and no resource and no point.
C38_OnlyGivenTransformers ==
    /\ (PipeCalled /\ Suppressed(uOptions)) =>
          /\ uPipe.asked \subseteq {"ProjectID"}
          /\ uPipe.err \notin {MetadataError("InstanceID"), MetadataError("Zone"),
                               MetadataError("cluster_name")}
    /\ (PipeMade /\ Suppressed(uOptions)) =>
          uPipe.pipeline.transformers = GivenTransformers(uOptions)
    /\ (PipeBuilt /\ Suppressed(uOptions) /\ GivenTransformers(uOptions) = <<>>) =>
          /\ uOut.err = NoError
          /\ uOut.req.Name = <<"projects/", uPipe.pipeline.projectID>>
          /\ Len(uOut.req.TimeSeries) = 1
          /\ uOut.req.TimeSeries[1].Metric.Type = uPipe.pipeline.metricType
          /\ uOut.req.TimeSeries[1].MetricKind = "GAUGE"
          /\ uOut.req.TimeSeries[1].Resource = NoResource
          /\ uOut.req.TimeSeries[1].Points = <<>>

\* WithoutDefaultTransformers between two WithTransformers, on Compute
\* Engine: the chain is the two transformers given, and the metadata client
\* was asked for the project identifier only.
C38_Witness ==
    /\ PipeBuilt
    /\ uOptions = <<WithTransformers(<<K8sNode>>), WithoutDefaultTransformers,
                    WithTransformers(<<IntegerValue>>)>>
    /\ uEnv.onGCE
    /\ uPipe.pipeline.transformers = <<K8sNode, IntegerValue>>
    /\ uPipe.asked = {"ProjectID"}
    /\ uOut.req.TimeSeries[1].Resource = K8sNodeMonitoredResource

\* C39: a resource transformer and a value transformer called one after the
\* other on a request with the same metric leave the same request, and return
\* the same error, in either order; so the request BuildRequest returns for a
\* chain of one of each is the same in either order.
C39_FamiliesCommute ==
    /\ (uMode = "transformer" /\ uCalls = 1 /\ uT \in BuiltIn) =>
          \A t2 \in BuiltIn :
             t2.family # uT.family =>
                LET other == Transformer(t2, 1, uReq, uMetric, FALSE)
                    thenOther == Transformer(t2, 1, uOut.req, uMetric, FALSE)
                    otherThen == Transformer(uT, 1, other.req, uMetric, FALSE)
                IN /\ thenOther.req = otherThen.req
                   /\ thenOther.err = otherThen.err
    /\ (Built /\ Len(uChain) = 2 /\ uChain[1] \in BuiltIn /\ uChain[2] \in BuiltIn
          /\ uChain[1].family # uChain[2].family) =>
          /\ uOut.err = NoError
          /\ uOut.req = BuildRequest(<<uChain[2], uChain[1]>>, uMetric, 0).req

\* BuildRequest has run the integer transformer and then the gce_instance
\* transformer: the request has the resource and the point, as it has with
\* the two the other way round.
C39_Witness ==
    /\ Built
    /\ uChain = <<IntegerValue, GCEInstance>>
    /\ uOut.req.TimeSeries[1].Resource = MonitoredResource(GCEInstance)
    /\ uOut.req.TimeSeries[1].Points = <<IntegerPoint(uMetric)>>
    /\ uOut.req = BuildRequest(<<GCEInstance, IntegerValue>>, uMetric, 0).req

====
